---- MODULE Spec2Model ----
(***************************************************************************)
(* Canvas editor: scene objects, snapshot history (undo/redo), pointer     *)
(* sessions (move / resize / rotate) and the smart-guide detector.         *)
(*                                                                         *)
(* Numbers.  Python floats are modelled as exact fixed-point integers:     *)
(*   - pixel quantities are counted in units of 1/PX pixel,                *)
(*   - centimetre quantities in units of 1/CM centimetre,                  *)
(* with PX = 254*dpi and CM = 100*dpi, so that (cm / 2.54) * dpi is the    *)
(* exact integer cm * dpi and (px / dpi) * 2.54 is px \div dpi.            *)
(* int(...) truncates to whole pixels.  Rounding error of the float        *)
(* arithmetic itself is not modelled.                                      *)
(***************************************************************************)
EXTENDS Integers, Sequences, FiniteSets, TLC

\* ------------------------------------------------------------------ bounds
MaxImages   == 1      \* images on the canvas at once (Spec)
RestoreImages == 2    \* images on the canvas at once (SpecRestore)
MaxTexts    == 1      \* text objects on the canvas at once
MaxUuid     == 3      \* objects ever created in one run
HistoryCap  == 2      \* scaled-down history cap (the program's is max_history_default)
MaxZ        == 52     \* bring_to_front stops raising z here (SpecCap)

\* ------------------------------------------------------- program constants
canvas_dpi            == 96
max_history_default   == 50
snap_threshold        == 8
handle_size           == 12
rotation_handle_distance == 30
canvas_width_cm       == 21
grid_size_cm          == 1
initial_width_cm      == 5
minimum_size          == 10

PX == 254 * canvas_dpi          \* one pixel, in pixel units
CM == 100 * canvas_dpi          \* one centimetre, in centimetre units
canvas_height_cm10 == 297       \* 29.7 cm, in tenths of a centimetre

Abs(n) == IF n < 0 THEN -n ELSE n

cm_to_pixels(cm, dpi) == cm * dpi
pixels_to_cm(pixels, dpi) == pixels \div dpi

\* int(x) on a pixel quantity: truncation toward zero to whole pixels
int_px(p) == IF p >= 0 THEN (p \div PX) * PX ELSE -(((-p) \div PX) * PX)

\* Python round(a / b) for b > 0: nearest integer, ties to even
py_round_div(a, b) ==
    LET q == a \div b
        r == a % b
    IN  IF 2 * r < b THEN q
        ELSE IF 2 * r > b THEN q + 1
        ELSE IF q % 2 = 0 THEN q ELSE q + 1

NoUuid == 0

\* Image files known to the model: pixel width and height of the picture
Paths == {"a.png", "b.png"}
file_width(path)  == IF path = "a.png" THEN 100 ELSE 200
file_height(path) == 100

\* Scene rectangle set by create_canvas
scene_width  == cm_to_pixels(canvas_width_cm * CM, canvas_dpi)
scene_height == cm_to_pixels((canvas_height_cm10 * CM) \div 10, canvas_dpi)

\* ---------------------------------------------------------------- geometry
\* A rectangle is [l, t, r, b] in pixel units.
Rect(l, t, r, b) == [l |-> l, t |-> t, r |-> r, b |-> b]
rect_width(rc)    == rc.r - rc.l
rect_height(rc)   == rc.b - rc.t
rect_center_x(rc) == rc.l + (rect_width(rc) \div 2)
rect_center_y(rc) == rc.t + (rect_height(rc) \div 2)

\* DraggableImageItem.boundingRect: the pixmap rectangle grown by the
\* handle margins.  QGraphicsTextItem keeps its own box.
boundingRect(it) ==
    IF it.kind = "image"
    THEN LET margin == (handle_size + 2) * PX
             rotation_margin == (rotation_handle_distance + handle_size + 5) * PX
         IN  Rect(-margin, -(rotation_margin + margin),
                  it.pix_w + margin, it.pix_h + margin)
    ELSE Rect(0, 0, it.pix_w, it.pix_h)

\* Rotation of a vector by a right angle (Qt: positive angles are clockwise
\* on screen, y grows downwards).
rotate_vec(dx, dy, angle) ==
    LET a == angle % 360
    IN  CASE a = 0   -> <<dx, dy>>
          [] a = 90  -> <<-dy, dx>>
          [] a = 180 -> <<-dx, -dy>>
          [] a = 270 -> <<dy, -dx>>

Min2(a, b) == IF a < b THEN a ELSE b
Max2(a, b) == IF a > b THEN a ELSE b

\* The box spanned by two opposite corners p1 and p2, moved by (cx, cy)
corner_box(p1, p2, cx, cy) ==
    Rect(cx + Min2(p1[1], p2[1]), cy + Min2(p1[2], p2[2]),
         cx + Max2(p1[1], p2[1]), cy + Max2(p1[2], p2[2]))

\* The rectangle br of an item turned by a right angle about its transform
\* origin (ox, oy), in the scene when the item sits at (px, py)
rotated_rect(br, ox, oy, rotation, px, py) ==
    corner_box(rotate_vec(br.l - ox, br.t - oy, rotation),
               rotate_vec(br.r - ox, br.b - oy, rotation),
               px + ox, py + oy)

\* QGraphicsItem.sceneBoundingRect for an item placed at position (px, py):
\* the bounding box of boundingRect rotated about the transform origin.
sceneBoundingRectAt(it, px, py) ==
    rotated_rect(boundingRect(it), it.origin_x, it.origin_y, it.rotation, px, py)

sceneBoundingRect(it) == sceneBoundingRectAt(it, it.pos_x, it.pos_y)

\* SmartGuideManager.get_item_bounds
get_item_bounds(it) ==
    LET rc == sceneBoundingRect(it)
    IN  [left |-> rc.l, right |-> rc.r, top |-> rc.t, bottom |-> rc.b,
         center_x |-> rect_center_x(rc), center_y |-> rect_center_y(rc)]

\* --------------------------------------------------- smart-guide detector
None == [has |-> FALSE, v |-> 0]
Some(v) == [has |-> TRUE, v |-> v]

vertical_guide(x)   == [orientation |-> "vertical", coord |-> x]
horizontal_guide(y) == [orientation |-> "horizontal", coord |-> y]

\* QGraphicsScene.items(): descending stacking order, i.e. highest z first
\* and, for equal z, the item inserted last first.  sc is the insertion
\* sequence of the movable items (images and texts) of the scene.
RECURSIVE items_desc(_, _)
items_desc(sc, idxs) ==
    IF idxs = {} THEN <<>>
    ELSE LET top == CHOOSE i \in idxs :
                       \A j \in idxs : sc[j].z < sc[i].z
                                       \/ (sc[j].z = sc[i].z /\ j <= i)
         IN  <<sc[top]>> \o items_desc(sc, idxs \ {top})

scene_items(sc) == items_desc(sc, DOMAIN sc)

\* Variant: the test on x without its "snap_x is None" part
snap_x_if_overwrites(acc, gap, snap, coord) ==
    IF Abs(gap) < snap_threshold * PX
    THEN [acc EXCEPT !.snap_x = Some(snap),
                     !.guides = Append(@, vertical_guide(coord))]
    ELSE acc

\* One "if snap_x is None and abs(...) < self.snap_threshold" test of
\* detect_alignments: snap the x position and draw a vertical guide
snap_x_if(acc, gap, snap, coord) ==
    IF ~acc.snap_x.has /\ Abs(gap) < snap_threshold * PX
    THEN [acc EXCEPT !.snap_x = Some(snap),
                     !.guides = Append(@, vertical_guide(coord))]
    ELSE acc

\* Variant: the test on y draws its guide although y is already taken
snap_y_if_draws_again(acc, gap, snap, coord) ==
    IF Abs(gap) < snap_threshold * PX
    THEN [acc EXCEPT !.snap_y = IF acc.snap_y.has THEN @ ELSE Some(snap),
                     !.guides = Append(@, horizontal_guide(coord))]
    ELSE acc

\* The same test for the y position, with a horizontal guide
snap_y_if(acc, gap, snap, coord) ==
    IF ~acc.snap_y.has /\ Abs(gap) < snap_threshold * PX
    THEN [acc EXCEPT !.snap_y = Some(snap),
                     !.guides = Append(@, horizontal_guide(coord))]
    ELSE acc

\* The tests on centres, the first two of the loop body of detect_alignments
align_centers(acc, mb, mrect, ob) ==
    LET half_w == mrect.center_x - mrect.left
        half_h == mrect.center_y - mrect.top
    IN  snap_y_if(
            snap_x_if(acc, mb.center_x - ob.center_x,
                      ob.center_x - half_w + (mrect.width \div 2), ob.center_x),
            mb.center_y - ob.center_y,
            ob.center_y - half_h + (mrect.height \div 2), ob.center_y)

\* The four tests on edges: left, right, top, bottom
align_edges(acc, mb, mrect, ob) ==
    snap_y_if(
        snap_y_if(
            snap_x_if(
                snap_x_if(acc, mb.left - ob.left, ob.left, ob.left),
                mb.right - ob.right, ob.right - mrect.width, ob.right),
            mb.top - ob.top, ob.top, ob.top),
        mb.bottom - ob.bottom, ob.bottom - mrect.height, ob.bottom)

\* The four tests of the moving centre against the other's edges
align_center_to_edges(acc, mb, mrect, ob) ==
    LET half_w == mrect.center_x - mrect.left
        half_h == mrect.center_y - mrect.top
    IN  snap_y_if(
            snap_y_if(
                snap_x_if(
                    snap_x_if(acc, mb.center_x - ob.left,
                              ob.left - half_w + (mrect.width \div 2), ob.left),
                    mb.center_x - ob.right,
                    ob.right - half_w + (mrect.width \div 2), ob.right),
                mb.center_y - ob.top,
                ob.top - half_h + (mrect.height \div 2), ob.top),
            mb.center_y - ob.bottom,
            ob.bottom - half_h + (mrect.height \div 2), ob.bottom)

\* Body of the "for item in self.scene.items()" loop of detect_alignments
\* for one other item with bounds ob; acc carries snap_x, snap_y and the
\* guide lines drawn so far.  mb / mrect describe the moving item.
align_with_item(acc, mb, mrect, ob) ==
    align_center_to_edges(align_edges(align_centers(acc, mb, mrect, ob), mb, mrect, ob),
                          mb, mrect, ob)

RECURSIVE align_loop(_, _, _, _, _)
align_loop(acc, mb, mrect, moving_uuid, its) ==
    IF its = <<>> THEN acc
    ELSE IF Head(its).uuid = moving_uuid
         THEN align_loop(acc, mb, mrect, moving_uuid, Tail(its))
         ELSE align_loop(align_with_item(acc, mb, mrect, get_item_bounds(Head(its))),
                         mb, mrect, moving_uuid, Tail(its))

\* moving_rect (the moving item's sceneBoundingRect translated to the new
\* position) with the quantities detect_alignments reads from it
moving_rect_of(mr) ==
    [left |-> mr.l, top |-> mr.t, width |-> rect_width(mr), height |-> rect_height(mr),
     center_x |-> rect_center_x(mr), center_y |-> rect_center_y(mr)]

\* moving_bounds of detect_alignments
moving_bounds_of(mr) ==
    [left |-> mr.l, right |-> mr.r, top |-> mr.t, bottom |-> mr.b,
     center_x |-> rect_center_x(mr), center_y |-> rect_center_y(mr)]

\* The two tests against the centre of the canvas, made before the loop
\* (snap_x and snap_y are still None there)
align_canvas_center(acc, mb, mrect) ==
    snap_y_if(
        snap_x_if(acc, mb.center_x - (scene_width \div 2),
                  (scene_width \div 2) - (mrect.center_x - mrect.left) + (mrect.width \div 2),
                  scene_width \div 2),
        mb.center_y - (scene_height \div 2),
        (scene_height \div 2) - (mrect.center_y - mrect.top) + (mrect.height \div 2),
        scene_height \div 2)

\* The end of detect_alignments: the position to take and the guides drawn
snap_result(res, new_x, new_y) ==
    [x |-> IF res.snap_x.has THEN res.snap_x.v ELSE new_x,
     y |-> IF res.snap_y.has THEN res.snap_y.v ELSE new_y,
     guide_lines |-> res.guides]

\* detect_alignments once moving_bounds and moving_rect are known
detect_from(sc, moving_uuid, mb, mrect, new_x, new_y) ==
    snap_result(
        align_loop(align_canvas_center([snap_x |-> None, snap_y |-> None, guides |-> <<>>],
                                       mb, mrect),
                   mb, mrect, moving_uuid, scene_items(sc)),
        new_x, new_y)

\* SmartGuideManager.detect_alignments(moving_item, new_pos).  g is the
\* manager state [enabled, guide_lines]; the result carries the adjusted
\* position and the manager's new guide lines.
detect_alignments(g, sc, moving_item, new_x, new_y) ==
    IF ~g.enabled
    THEN [x |-> new_x, y |-> new_y, guide_lines |-> g.guide_lines]
    ELSE detect_from(sc, moving_item.uuid,
                     moving_bounds_of(sceneBoundingRectAt(moving_item, new_x, new_y)),
                     moving_rect_of(sceneBoundingRectAt(moving_item, new_x, new_y)),
                     new_x, new_y)


\* ------------------------------------------------------------------ state
VARIABLES
    canvas_images,   \* CanvasEditor.canvas_images: list of CanvasImageItem
    text_items,      \* CanvasEditor.text_items: list of TextCanvasItem
    scene,           \* movable graphics items of the QGraphicsScene, in insertion order
    smart_guides,    \* SmartGuideManager: [enabled, guide_lines]
    snap_to_grid,    \* CanvasEditor.snap_to_grid
    history,         \* CanvasEditor.history: list of JSON texts
    history_index,   \* CanvasEditor.history_index (0-based, -1 when empty)
    max_history,     \* CanvasEditor.max_history
    files,           \* image paths that currently resolve on disk
    next_uuid,       \* source of fresh uuids
    mouse_grabber,   \* uuid of the item receiving pointer events, or NoUuid
    last_op,         \* what the last handler was and what it did to the history
    ui               \* dialogs raised by the last handler

vars == <<canvas_images, text_items, scene, smart_guides, snap_to_grid,
          history, history_index, max_history, files, next_uuid,
          mouse_grabber, last_op, ui>>

\* CanvasImageItem (dataclass).  rotation in degrees, opacity in percent,
\* aspect_ratio as the pair <<height, width>> of the picture.
CanvasImageItem(uuid, path, x, y, width, height, rotation, z_index, locked, visible, opacity, aspect) ==
    [uuid |-> uuid, image_path |-> path, x |-> x, y |-> y,
     width |-> width, height |-> height, rotation |-> rotation,
     z_index |-> z_index, locked |-> locked, visible |-> visible,
     opacity |-> opacity, original_aspect_ratio |-> aspect]

\* TextCanvasItem (dataclass), the attributes the editor changes
TextCanvasItem(uuid, x, y, width, height, z_index) ==
    [uuid |-> uuid, x |-> x, y |-> y, width |-> width, height |-> height,
     font_weight |-> "normal", rotation |-> 0, opacity |-> 100,
     z_index |-> z_index, locked |-> FALSE, visible |-> TRUE]

\* A graphics item: DraggableImageItem / DraggableTextItem with the Qt
\* state the handlers read (position, pixmap size, transform origin, ...)
GraphicsItem(kind, uuid, w, h, ox, oy, rotation, z, opacity, movable) ==
    [kind |-> kind, uuid |-> uuid, pos_x |-> 0, pos_y |-> 0,
     pix_w |-> w, pix_h |-> h, origin_x |-> ox, origin_y |-> oy,
     rotation |-> rotation, z |-> z, opacity |-> opacity, visible |-> TRUE,
     movable |-> movable, selected |-> FALSE, is_editing |-> FALSE,
     is_resizing |-> FALSE, is_rotating |-> FALSE, resize_handle |-> "none",
     resize_start_w |-> 0, resize_start_h |-> 0,
     resize_from_center |-> FALSE, maintain_aspect_ratio |-> FALSE,
     rotation_start_angle |-> 0]

\* DraggableImageItem.__init__
DraggableImageItem(w, h, canvas_item) ==
    LET it0 == GraphicsItem("image", canvas_item.uuid, w, h, 0, 0,
                            canvas_item.rotation, canvas_item.z_index,
                            canvas_item.opacity, ~canvas_item.locked)
        br == boundingRect(it0)
    IN  [it0 EXCEPT !.origin_x = rect_center_x(br), !.origin_y = rect_center_y(br)]

\* Height of the laid-out text document; it depends on font metrics that
\* are outside the source, so one fixed value stands for it.
text_doc_height == 40 * PX

\* DraggableTextItem.__init__
DraggableTextItem(text_item) ==
    GraphicsItem("text", text_item.uuid,
                 cm_to_pixels(text_item.width, canvas_dpi), text_doc_height,
                 0, 0, text_item.rotation, text_item.z_index,
                 text_item.opacity, ~text_item.locked)

\* QPixmap.scaled(w, h, IgnoreAspectRatio): a null pixmap when a side is 0
scaled(w, h) == IF w <= 0 \/ h <= 0 THEN <<0, 0>> ELSE <<w, h>>

\* itemChange(ItemPositionChange, value) of both item classes: the position
\* the item will really take, and the guide lines left in the manager.
itemChange(it, g, snap, sc, x, y) ==
    IF it.kind = "image"
    THEN IF snap
         THEN LET grid_size_px == cm_to_pixels(grid_size_cm * CM, canvas_dpi)
              IN  [x |-> py_round_div(x, grid_size_px) * grid_size_px,
                   y |-> py_round_div(y, grid_size_px) * grid_size_px,
                   guide_lines |-> g.guide_lines]
         ELSE IF ~it.is_resizing /\ ~it.is_rotating
              THEN detect_alignments(g, sc, it, x, y)
              ELSE [x |-> x, y |-> y, guide_lines |-> g.guide_lines]
    ELSE IF ~it.is_editing
         THEN detect_alignments(g, sc, it, x, y)
         ELSE [x |-> x, y |-> y, guide_lines |-> g.guide_lines]

\* The item and its data object once itemChange(ItemPositionChange) has
\* answered r: the position r is taken and, if it is a new one,
\* itemChange(ItemPositionHasChanged) rewrites x and y of the data object
position_taken(it, d, r) ==
    IF r.x = it.pos_x /\ r.y = it.pos_y
    THEN [item |-> it, data |-> d, guide_lines |-> r.guide_lines]
    ELSE [item |-> [it EXCEPT !.pos_x = r.x, !.pos_y = r.y],
          data |-> [d EXCEPT !.x = pixels_to_cm(r.x, canvas_dpi),
                             !.y = pixels_to_cm(r.y, canvas_dpi)],
          guide_lines |-> r.guide_lines]

\* QGraphicsItem.setPos on an item with ItemSendsGeometryChanges, followed
\* by itemChange(ItemPositionHasChanged): d is the item's data object
\* (canvas_item / text_item), whose x and y are rewritten from the position
\* actually taken.  Nothing is notified when the position does not change.
setPos(it, d, g, snap, sc, x, y) ==
    IF x = it.pos_x /\ y = it.pos_y
    THEN [item |-> it, data |-> d, guide_lines |-> g.guide_lines]
    ELSE position_taken(it, d, itemChange(it, g, snap, sc, x, y))

\* ---------------------------------------------------------------- history
\* json.dumps / json.loads.  A JSON text is the pair <<"json", value>>;
\* any other text does not decode (json.JSONDecodeError).
json_dumps(value) == <<"json", value>>
json_loads(text) ==
    IF text[1] = "json" THEN [ok |-> TRUE, value |-> text[2]]
    ELSE [ok |-> FALSE, value |-> <<>>]

\* Variant: a capture that directly follows another capture writes the
\* z_index one higher
image_dict_marks_repeat(img) ==
    [path |-> img.image_path, x |-> img.x, y |-> img.y,
     width |-> img.width, height |-> img.height, rotation |-> img.rotation,
     z_index |-> img.z_index + last_op.captures, opacity |-> img.opacity,
     locked |-> img.locked, visible |-> img.visible,
     aspect_ratio |-> img.original_aspect_ratio, uuid |-> img.uuid]

\* The dict of one image written by save_history_state
image_dict(img) ==
    [path |-> img.image_path, x |-> img.x, y |-> img.y,
     width |-> img.width, height |-> img.height, rotation |-> img.rotation,
     z_index |-> img.z_index, opacity |-> img.opacity, locked |-> img.locked,
     visible |-> img.visible, aspect_ratio |-> img.original_aspect_ratio,
     uuid |-> img.uuid]

\* The state dict serialised by save_history_state
serialize_state(images) ==
    [canvas_width |-> canvas_width_cm * CM,
     canvas_height |-> (canvas_height_cm10 * CM) \div 10,
     canvas_dpi |-> canvas_dpi,
     images |-> [i \in DOMAIN images |-> image_dict(images[i])]]

\* Variant: the index advances even when the oldest snapshot is dropped
push_history_index_runs_on(hist, index, cap, state_json) ==
    LET kept == IF index < Len(hist) - 1 THEN SubSeq(hist, 1, index + 1) ELSE hist
        appended == Append(kept, state_json)
    IN  IF Len(appended) > cap
        THEN [history |-> Tail(appended), history_index |-> index + 1]
        ELSE [history |-> appended, history_index |-> index + 1]

\* Variant: the redo branch is kept when a snapshot is appended
push_history_keeps_redo(hist, index, cap, state_json) ==
    LET appended == Append(hist, state_json)
    IN  IF Len(appended) > cap
        THEN [history |-> Tail(appended), history_index |-> index]
        ELSE [history |-> appended, history_index |-> index + 1]

\* Variant: the cap is not enforced
push_history_unbounded(hist, index, cap, state_json) ==
    LET kept == IF index < Len(hist) - 1 THEN SubSeq(hist, 1, index + 1) ELSE hist
    IN  [history |-> Append(kept, state_json), history_index |-> index + 1]

\* Variant: the snapshot at the index is the live state itself, so that it
\* reads as the new state once the scene has changed
push_history_shares_current(hist, index, cap, state_json) ==
    LET kept == IF index < Len(hist) - 1 THEN SubSeq(hist, 1, index + 1) ELSE hist
        appended == Append([kept EXCEPT ![index + 1] = state_json], state_json)
    IN  IF Len(appended) > cap
        THEN [history |-> Tail(appended), history_index |-> index]
        ELSE [history |-> appended, history_index |-> index + 1]

\* save_history_state, the part after json.dumps: prune the redo branch,
\* append, enforce the cap.  Result: the new list and the new index.
push_history(hist, index, cap, state_json) ==
    LET kept == IF index < Len(hist) - 1 THEN SubSeq(hist, 1, index + 1) ELSE hist
        appended == Append(kept, state_json)
    IN  IF Len(appended) > cap
        THEN [history |-> Tail(appended), history_index |-> index]
        ELSE [history |-> appended, history_index |-> index + 1]

\* CanvasEditor.save_history_state
save_history_state(hist, index, cap, images) ==
    push_history(hist, index, cap, json_dumps(serialize_state(images)))


\* One snapshot entry turned back into a placed image by restore_state:
\* the data object, the graphics item built from it and put in place.
restore_image(img_data, g, snap, sc) ==
    LET canvas_item == CanvasImageItem(img_data.uuid, img_data.path,
                           img_data.x, img_data.y, img_data.width, img_data.height,
                           img_data.rotation, img_data.z_index, img_data.locked,
                           img_data.visible, img_data.opacity, img_data.aspect_ratio)
        width_px  == cm_to_pixels(canvas_item.width, canvas_dpi)
        height_px == cm_to_pixels(canvas_item.height, canvas_dpi)
        pix == scaled(int_px(width_px), int_px(height_px))
        graphic_item == DraggableImageItem(pix[1], pix[2], canvas_item)
        placed == setPos(graphic_item, canvas_item, g, snap, sc,
                         cm_to_pixels(canvas_item.x, canvas_dpi),
                         cm_to_pixels(canvas_item.y, canvas_dpi))
    IN  [item |-> [placed.item EXCEPT !.visible = canvas_item.visible],
         data |-> placed.data, guide_lines |-> placed.guide_lines]

\* Variant: the loop stops at the first image whose file is missing
RECURSIVE restore_loop_abort(_, _, _, _, _)
restore_loop_abort(imgs, acc, enabled, snap, fs) ==
    IF imgs = <<>> THEN acc
    ELSE LET img_data == Head(imgs)
         IN  IF img_data.path \notin fs
             THEN [acc EXCEPT !.failed = Append(@, [path |-> img_data.path,
                                                    reason |-> "Archivo no encontrado"])]
             ELSE LET r == restore_image(img_data,
                               [enabled |-> enabled, guide_lines |-> acc.guide_lines],
                               snap, acc.scene)
                  IN  restore_loop_abort(Tail(imgs),
                          [acc EXCEPT !.canvas_images = Append(@, r.data),
                                      !.scene = Append(@, r.item),
                                      !.guide_lines = r.guide_lines],
                          enabled, snap, fs)

\* The "for img_data in state['images']" loop of restore_state.  acc holds
\* canvas_images, scene, guide_lines and failed_images built so far.
RECURSIVE restore_loop(_, _, _, _, _)
restore_loop(imgs, acc, enabled, snap, fs) ==
    IF imgs = <<>> THEN acc
    ELSE LET img_data == Head(imgs)
         IN  IF img_data.path \notin fs
             THEN restore_loop(Tail(imgs),
                      [acc EXCEPT !.failed = Append(@, [path |-> img_data.path,
                                                         reason |-> "Archivo no encontrado"])],
                      enabled, snap, fs)
             ELSE LET r == restore_image(img_data,
                               [enabled |-> enabled, guide_lines |-> acc.guide_lines],
                               snap, acc.scene)
                  IN  restore_loop(Tail(imgs),
                          [acc EXCEPT !.canvas_images = Append(@, r.data),
                                      !.scene = Append(@, r.item),
                                      !.guide_lines = r.guide_lines],
                          enabled, snap, fs)

\* CanvasEditor.restore_state(state_json).  Result: the new canvas_images,
\* scene and guide lines, the number of error boxes raised
\* (QMessageBox.critical) and the lists handed to
\* show_missing_images_dialog.
restore_state(state_json, images, sc, g, snap, fs) ==
    LET loaded == json_loads(state_json)
    IN  IF ~loaded.ok
        THEN [canvas_images |-> images, scene |-> sc, guide_lines |-> g.guide_lines,
              errors |-> 1, dialogs |-> <<>>]
        ELSE LET cleared == SelectSeq(sc, LAMBDA it : it.kind # "image")
             IN  IF "images" \notin DOMAIN loaded.value
                 THEN [canvas_images |-> <<>>, scene |-> cleared,
                       guide_lines |-> g.guide_lines, errors |-> 1, dialogs |-> <<>>]
                 ELSE LET res == restore_loop(loaded.value.images,
                                     [canvas_images |-> <<>>, scene |-> cleared,
                                      guide_lines |-> g.guide_lines, failed |-> <<>>],
                                     g.enabled, snap, fs)
                      IN  [canvas_images |-> res.canvas_images, scene |-> res.scene,
                           guide_lines |-> res.guide_lines, errors |-> 0,
                           dialogs |-> IF res.failed # <<>> THEN <<res.failed>> ELSE <<>>]

\* ------------------------------------------------------------ bookkeeping
Quiet == [errors |-> 0, dialogs |-> <<>>]

\* last_op describes the handler that ran last: its name, a detail, how many
\* snapshots it recorded, how many snapshots the capture pruned from the redo
\* branch, whether the capture dropped the oldest snapshot, and the snapshot
\* most recently dropped (undo and redo carry that one along).
NoSnapshot == <<"none", <<>>>>

Op(name, arg, captures, pruned, dropped, evicted) ==
    [op |-> name, arg |-> arg, captures |-> captures,
     pruned |-> pruned, dropped |-> dropped, evicted |-> evicted]

\* A handler that ends with self.save_history_state()
Capture(images, name, arg) ==
    LET r == save_history_state(history, history_index, max_history, images)
    IN  /\ history' = r.history
        /\ history_index' = r.history_index
        /\ last_op' = Op(name, arg, 1, Len(history) - 1 - history_index,
                         r.history_index = history_index,
                         IF r.history_index = history_index THEN history[1] ELSE NoSnapshot)

NoCapture(name, arg) ==
    /\ UNCHANGED <<history, history_index>>
    /\ last_op' = Op(name, arg, 0, 0, FALSE, NoSnapshot)

\* Qt releases the pointer grab of an item that leaves the scene
grab_after(sc) ==
    IF \E i \in DOMAIN sc : sc[i].uuid = mouse_grabber THEN mouse_grabber ELSE NoUuid

index_of(seq, uuid) == CHOOSE i \in DOMAIN seq : seq[i].uuid = uuid
has_uuid(seq, uuid) == \E i \in DOMAIN seq : seq[i].uuid = uuid

selected_images(sc) == {i \in DOMAIN sc : sc[i].kind = "image" /\ sc[i].selected}

\* ------------------------------------------------------------------- Init
\* The state at the end of CanvasEditor.__init__: empty canvas, one snapshot.
InitWith(cap) ==
    /\ canvas_images = <<>>
    /\ text_items = <<>>
    /\ scene = <<>>
    /\ smart_guides = [enabled |-> TRUE, guide_lines |-> <<>>]
    /\ snap_to_grid = FALSE
    /\ history = <<json_dumps(serialize_state(<<>>))>>
    /\ history_index = 0
    /\ max_history = cap
    /\ files = Paths
    /\ next_uuid = 1
    /\ mouse_grabber = NoUuid
    /\ last_op = Op("__init__", "", 1, 0, FALSE, NoSnapshot)
    /\ ui = Quiet

Init == InitWith(HistoryCap)


\* ---------------------------------------------------------------- actions
\* Inputs
QuarterTurns  == {90, -90}

\* QPixmap.scaled(bw, bh, KeepAspectRatio) of a w x h picture (QSize::scaled)
scaled_keep_aspect(w, h, bw, bh) ==
    LET rw == (bh * w) \div h
    IN  IF rw <= bw THEN <<rw, bh>> ELSE <<bw, (bw * h) \div w>>

\* CanvasEditor.add_image_to_canvas_at_pos(path, scene_x, scene_y)
add_image_to_canvas_at_pos(path, scene_x, scene_y) ==
    /\ path \in files
    /\ LET initial_width  == initial_width_cm * CM
           initial_height == (initial_width * file_height(path)) \div file_width(path)
           canvas_item == CanvasImageItem(next_uuid, path,
                              pixels_to_cm(scene_x, canvas_dpi),
                              pixels_to_cm(scene_y, canvas_dpi),
                              initial_width, initial_height, 0,
                              Len(canvas_images), FALSE, TRUE, 100,
                              <<file_height(path), file_width(path)>>)
           box_w == int_px(cm_to_pixels(initial_width, canvas_dpi)) \div PX
           box_h == int_px(cm_to_pixels(initial_height, canvas_dpi)) \div PX
           pix == scaled_keep_aspect(file_width(path), file_height(path), box_w, box_h)
           graphic_item == DraggableImageItem(pix[1] * PX, pix[2] * PX, canvas_item)
           placed == setPos(graphic_item, canvas_item, smart_guides, snap_to_grid,
                            scene, scene_x, scene_y)
           images == Append(canvas_images, placed.data)
       IN  /\ canvas_images' = images
           /\ scene' = Append(scene, placed.item)
           /\ smart_guides' = [smart_guides EXCEPT !.guide_lines = placed.guide_lines]
           /\ Capture(images, "add_image_to_canvas_at_pos", path)
    /\ next_uuid' = next_uuid + 1
    /\ ui' = Quiet
    /\ UNCHANGED <<text_items, snap_to_grid, max_history, files, mouse_grabber>>

\* CanvasEditor.add_text_to_canvas
add_text_to_canvas ==
    /\ LET x_cm == (canvas_width_cm * CM) \div 2 - 5 * CM
           y_cm == (canvas_height_cm10 * CM) \div 20 - 1 * CM
           text_item == TextCanvasItem(next_uuid, x_cm, y_cm, 10 * CM, 2 * CM,
                                       Len(canvas_images) + Len(text_items))
           graphic_text == DraggableTextItem(text_item)
           placed == setPos(graphic_text, text_item, smart_guides, snap_to_grid, scene,
                            cm_to_pixels(x_cm, canvas_dpi), cm_to_pixels(y_cm, canvas_dpi))
       IN  /\ scene' = Append(scene, [placed.item EXCEPT !.is_editing = TRUE])
           /\ text_items' = Append(text_items, placed.data)
           /\ smart_guides' = [smart_guides EXCEPT !.guide_lines = placed.guide_lines]
    /\ Capture(canvas_images, "add_text_to_canvas", "")
    /\ next_uuid' = next_uuid + 1
    /\ ui' = Quiet
    /\ UNCHANGED <<canvas_images, snap_to_grid, max_history, files, mouse_grabber>>

\* DraggableTextItem.exit_edit_mode (Esc, or focus leaving the item)
exit_edit_mode(i) ==
    /\ i \in DOMAIN scene
    /\ scene[i].kind = "text" /\ scene[i].is_editing
    /\ scene' = [scene EXCEPT ![i].is_editing = FALSE]
    /\ LET k == index_of(text_items, scene[i].uuid)
       IN  text_items' = [text_items EXCEPT
                             ![k].height = pixels_to_cm(text_doc_height, canvas_dpi)]
    /\ Capture(canvas_images, "exit_edit_mode", "")
    /\ ui' = Quiet
    /\ UNCHANGED <<canvas_images, smart_guides, snap_to_grid, max_history, files,
                   next_uuid, mouse_grabber>>

\* CanvasEditor.delete_text_item(item), from the text item's context menu
\* (offered while the item is not being edited)
delete_text_item(i) ==
    /\ i \in DOMAIN scene
    /\ scene[i].kind = "text" /\ ~scene[i].is_editing
    /\ LET sc == SelectSeq(scene, LAMBDA it : it.uuid # scene[i].uuid)
       IN  /\ scene' = sc
           /\ mouse_grabber' = grab_after(sc)
    /\ text_items' = SelectSeq(text_items, LAMBDA t : t.uuid # scene[i].uuid)
    /\ Capture(canvas_images, "delete_text_item", "")
    /\ ui' = Quiet
    /\ UNCHANGED <<canvas_images, smart_guides, snap_to_grid, max_history, files,
                   next_uuid>>

\* CanvasEditor.select_layer(item): click on a row of the layers list
select_layer(idx) ==
    /\ idx \in DOMAIN canvas_images
    /\ scene' = [i \in DOMAIN scene |->
                    IF scene[i].kind = "image"
                    THEN [scene[i] EXCEPT !.selected = (scene[i].uuid = canvas_images[idx].uuid)]
                    ELSE scene[i]]
    /\ scene' # scene
    /\ NoCapture("select_layer", "")
    /\ ui' = Quiet
    /\ UNCHANGED <<canvas_images, text_items, smart_guides, snap_to_grid, max_history,
                   files, next_uuid, mouse_grabber>>

\* CanvasEditor.rotate_selected(angle), from the context menu of an image
\* that is not locked
rotate_selected(angle) ==
    /\ selected_images(scene) # {}
    /\ \E c \in DOMAIN canvas_images : ~canvas_images[c].locked
    /\ LET sel == {scene[i].uuid : i \in selected_images(scene)}
           images == [c \in DOMAIN canvas_images |->
                        IF canvas_images[c].uuid \in sel
                        THEN [canvas_images[c] EXCEPT !.rotation = (@ + angle) % 360]
                        ELSE canvas_images[c]]
       IN  /\ canvas_images' = images
           /\ scene' = [i \in DOMAIN scene |->
                          IF i \in selected_images(scene)
                          THEN [scene[i] EXCEPT !.rotation =
                                   images[index_of(images, scene[i].uuid)].rotation]
                          ELSE scene[i]]
           /\ Capture(images, "rotate_selected", "")
    /\ ui' = Quiet
    /\ UNCHANGED <<text_items, smart_guides, snap_to_grid, max_history, files,
                   next_uuid, mouse_grabber>>

\* CanvasEditor.bring_to_front: the selected images, taken in scene order,
\* get z values above the highest z of canvas_images
bring_to_front ==
    /\ selected_images(scene) # {}
    /\ LET sel == selected_images(scene)
           zs == {canvas_images[c].z_index : c \in DOMAIN canvas_images}
           max_z == IF canvas_images # <<>>
                    THEN CHOOSE z \in zs : \A y \in zs : y <= z
                    ELSE 0
           new_z(i) == max_z + Cardinality({j \in sel : j <= i})
           z_of(uuid) == new_z(CHOOSE i \in sel : scene[i].uuid = uuid)
           images == [c \in DOMAIN canvas_images |->
                        IF \E i \in sel : scene[i].uuid = canvas_images[c].uuid
                        THEN [canvas_images[c] EXCEPT !.z_index = z_of(canvas_images[c].uuid)]
                        ELSE canvas_images[c]]
       IN  /\ canvas_images' = images
           /\ scene' = [i \in DOMAIN scene |->
                          IF i \in sel THEN [scene[i] EXCEPT !.z = new_z(i)] ELSE scene[i]]
           /\ Capture(images, "bring_to_front", "")
    /\ ui' = Quiet
    /\ UNCHANGED <<text_items, smart_guides, snap_to_grid, max_history, files,
                   next_uuid, mouse_grabber>>

\* CanvasEditor.toggle_snap(state): the check box flips
toggle_snap ==
    /\ snap_to_grid' = ~snap_to_grid
    /\ NoCapture("toggle_snap", "")
    /\ ui' = Quiet
    /\ UNCHANGED <<canvas_images, text_items, scene, smart_guides, max_history,
                   files, next_uuid, mouse_grabber>>

\* An image file disappears from disk (outside the editor)
remove_file(path) ==
    /\ path \in files
    /\ files' = files \ {path}
    /\ NoCapture("remove_file", path)
    /\ ui' = Quiet
    /\ UNCHANGED <<canvas_images, text_items, scene, smart_guides, snap_to_grid,
                   max_history, next_uuid, mouse_grabber>>

\* The scene after restore_state(state_json) ran on the current state
Restored(state_json) ==
    restore_state(state_json, canvas_images, scene, smart_guides, snap_to_grid, files)

ApplyRestore(r) ==
    /\ canvas_images' = r.canvas_images
    /\ scene' = r.scene
    /\ smart_guides' = [smart_guides EXCEPT !.guide_lines = r.guide_lines]
    /\ mouse_grabber' = grab_after(r.scene)
    /\ ui' = [errors |-> r.errors, dialogs |-> r.dialogs]
    /\ UNCHANGED <<text_items, snap_to_grid, max_history, files, next_uuid>>

\* CanvasEditor.restore_state(state_json) called with an arbitrary text
restore_state_call(state_json) ==
    /\ ApplyRestore(Restored(state_json))
    /\ NoCapture("restore_state",
                 IF ~json_loads(state_json).ok THEN "undecodable"
                 ELSE IF "images" \notin DOMAIN json_loads(state_json).value
                      THEN "no images" ELSE "valid")

\* Variant: undo at the bottom of the stack re-applies the oldest snapshot
undo_reapplies_oldest ==
    /\ history' = history
    /\ IF history_index > 0
       THEN /\ history_index' = history_index - 1
            /\ ApplyRestore(Restored(history[(history_index - 1) + 1]))
            /\ last_op' = Op("undo", "restored", 0, 0, FALSE, last_op.evicted)
       ELSE /\ history_index' = history_index
            /\ ApplyRestore(Restored(history[1]))
            /\ last_op' = Op("undo", "nothing", 0, 0, FALSE, last_op.evicted)

\* CanvasEditor.undo
undo ==
    IF history_index > 0
    THEN /\ history_index' = history_index - 1
         /\ history' = history
         /\ ApplyRestore(Restored(history[(history_index - 1) + 1]))
         /\ last_op' = Op("undo", "restored", 0, 0, FALSE, last_op.evicted)
    ELSE /\ last_op' = Op("undo", "nothing", 0, 0, FALSE, last_op.evicted)
         /\ ui' = Quiet
         /\ UNCHANGED <<canvas_images, text_items, scene, smart_guides, snap_to_grid,
                        history, history_index, max_history, files, next_uuid,
                        mouse_grabber>>

\* CanvasEditor.redo
redo ==
    IF history_index < Len(history) - 1
    THEN /\ history_index' = history_index + 1
         /\ history' = history
         /\ ApplyRestore(Restored(history[(history_index + 1) + 1]))
         /\ last_op' = Op("redo", "restored", 0, 0, FALSE, last_op.evicted)
    ELSE /\ last_op' = Op("redo", "nothing", 0, 0, FALSE, last_op.evicted)
         /\ ui' = Quiet
         /\ UNCHANGED <<canvas_images, text_items, scene, smart_guides, snap_to_grid,
                        history, history_index, max_history, files, next_uuid,
                        mouse_grabber>>

\* ------------------------------------------------------- pointer sessions
\* Anchor of each handle in item coordinates, from pixmap().rect(), the
\* integer rectangle whose right() is left + width - 1.
pixmap_rect(it) == Rect(0, 0, it.pix_w - PX, it.pix_h - PX)

handle_anchor(it, h) ==
    LET rect == pixmap_rect(it)
        mid_x == (rect.l + rect.r) \div 2
        mid_y == (rect.t + rect.b) \div 2
    IN  CASE h = "rotation" -> <<mid_x, rect.t - rotation_handle_distance * PX>>
          [] h = "tl" -> <<rect.l, rect.t>>
          [] h = "tr" -> <<rect.r, rect.t>>
          [] h = "bl" -> <<rect.l, rect.b>>
          [] h = "br" -> <<rect.r, rect.b>>
          [] h = "t"  -> <<mid_x, rect.t>>
          [] h = "b"  -> <<mid_x, rect.b>>
          [] h = "l"  -> <<rect.l, mid_y>>
          [] h = "r"  -> <<rect.r, mid_y>>

\* The order in which get_handle_at_pos tries the handles
HandleOrder == <<"rotation", "tl", "tr", "bl", "br", "t", "b", "l", "r">>

\* DraggableImageItem.get_handle_at_pos(pos): first handle whose anchor is
\* within the threshold (Manhattan distance), "none" otherwise
get_handle_at_pos(it, x, y) ==
    LET threshold == handle_size * PX
        hit(h) == Abs(x - handle_anchor(it, h)[1]) + Abs(y - handle_anchor(it, h)[2]) < threshold
    IN  IF \E k \in DOMAIN HandleOrder : hit(HandleOrder[k])
        THEN HandleOrder[CHOOSE k \in DOMAIN HandleOrder :
                            /\ hit(HandleOrder[k])
                            /\ \A j \in 1..(k - 1) : ~hit(HandleOrder[j])]
        ELSE "none"

\* Angles are whole degrees.  The polar angle (math.atan2, in degrees) of
\* the pointer around the item's centre is an input of the handlers; at the
\* press it is that of the rotation handle, which sits straight above the
\* centre in the item's own frame.
norm180(a) == ((a + 179) % 360) - 179
handle_polar_angle(it) == norm180(it.rotation - 90)

\* The "snap to 0/90/180/270" loop of the rotate branch of mouseMoveEvent
RECURSIVE snap_quadrant(_, _)
snap_quadrant(angle_degrees, snap_angles) ==
    IF snap_angles = <<>> THEN angle_degrees
    ELSE IF Abs(angle_degrees - Head(snap_angles)) < 5 THEN Head(snap_angles)
    ELSE IF Abs(angle_degrees + 360 - Head(snap_angles)) < 5 THEN Head(snap_angles)
    ELSE snap_quadrant(angle_degrees, Tail(snap_angles))

\* Python round(a / 15) * 15
snap15(angle_degrees) == py_round_div(angle_degrees, 15) * 15

\* Rotate branch of DraggableImageItem.mouseMoveEvent: the new rotation
rotate_update(it, pointer_angle, shift) ==
    LET raw == pointer_angle - it.rotation_start_angle
        a1 == IF shift THEN snap15(raw) ELSE raw
    IN  snap_quadrant(a1, <<0, 90, 180, 270, 360>>)

\* Resize branch of DraggableImageItem.mouseMoveEvent: new_width and
\* new_height for the pointer delta (dx, dy) since the press
resize_size(it, dx, dy, shift) ==
    LET rw == it.resize_start_w
        rh == it.resize_start_h
        h == it.resize_handle
        floor10(v) == Max2(minimum_size * PX, v)
        w1 == CASE h \in {"br", "tr", "r"} -> floor10(rw + dx)
                [] h \in {"bl", "tl", "l"} -> floor10(rw - dx)
                [] OTHER -> rw
        h1 == CASE h \in {"br", "bl", "b"} -> floor10(rh + dy)
                [] h \in {"tr", "tl", "t"} -> floor10(rh - dy)
                [] OTHER -> rh
        \* aspect_ratio = rect.width() / rect.height(); new_height = new_width / aspect_ratio
        h2 == IF h \in {"tl", "tr", "bl", "br"} /\ shift
              THEN ((w1 \div PX) * rh) \div (rw \div PX)
              ELSE h1
    IN  <<w1, h2>>

\* The division by zero that the aspect computation raises when the pixmap
\* the session started from is null
resize_raises(it, shift) ==
    /\ it.resize_handle \in {"tl", "tr", "bl", "br"} /\ shift
    /\ (it.resize_start_w = 0 \/ it.resize_start_h = 0)

\* DraggableImageItem.mousePressEvent (left button) at item position (x, y).
\* resize_start_pos is not kept: the move handler uses it only to form the
\* pointer delta, which is that handler's input here.
mousePressEvent(i, x, y, shift, alt) ==
    /\ mouse_grabber = NoUuid
    /\ i \in DOMAIN scene /\ scene[i].kind = "image"
    /\ LET it == scene[i]
           canvas_item == canvas_images[index_of(canvas_images, it.uuid)]
           handle == IF canvas_item.locked THEN "none" ELSE get_handle_at_pos(it, x, y)
       IN  /\ scene' =
                IF ~canvas_item.locked /\ handle = "rotation"
                THEN [scene EXCEPT ![i].is_rotating = TRUE,
                                   ![i].rotation_start_angle = handle_polar_angle(it) - it.rotation]
                ELSE IF ~canvas_item.locked /\ handle # "none"
                THEN [scene EXCEPT ![i].is_resizing = TRUE,
                                   ![i].resize_handle = handle,
                                   ![i].resize_start_w = it.pix_w,
                                   ![i].resize_start_h = it.pix_h,
                                   ![i].resize_from_center = alt,
                                   ![i].maintain_aspect_ratio = shift]
                ELSE \* QGraphicsItem.mousePressEvent: an unselected item
                     \* becomes the selection
                     IF it.selected THEN scene
                     ELSE [k \in DOMAIN scene |-> [scene[k] EXCEPT !.selected = (k = i)]]
           /\ NoCapture("mousePressEvent", handle)
    /\ mouse_grabber' = scene[i].uuid
    /\ ui' = Quiet
    /\ UNCHANGED <<canvas_images, text_items, smart_guides, snap_to_grid, max_history,
                   files, next_uuid>>

\* DraggableImageItem.mouseMoveEvent while rotating
mouseMove_rotate(pointer_angle, shift) ==
    /\ has_uuid(scene, mouse_grabber)
    /\ LET i == index_of(scene, mouse_grabber)
       IN  /\ scene[i].kind = "image" /\ scene[i].is_rotating
           /\ scene' = [scene EXCEPT ![i].rotation = rotate_update(scene[i], pointer_angle, shift)]
    /\ NoCapture("mouseMoveEvent", "rotate")
    /\ ui' = Quiet
    /\ UNCHANGED <<canvas_images, text_items, smart_guides, snap_to_grid, max_history,
                   files, next_uuid, mouse_grabber>>

\* DraggableImageItem.mouseMoveEvent while resizing; (dx, dy) is
\* event.scenePos() - resize_start_pos
mouseMove_resize(dx, dy, shift, alt) ==
    /\ has_uuid(scene, mouse_grabber)
    /\ LET i == index_of(scene, mouse_grabber)
           it == scene[i]
           c == index_of(canvas_images, it.uuid)
           new == resize_size(it, dx, dy, shift)
           pix == scaled(int_px(new[1]), int_px(new[2]))
           flagged == [it EXCEPT !.resize_from_center = alt,
                                 !.maintain_aspect_ratio = shift]
           it1 == [flagged EXCEPT !.pix_w = pix[1], !.pix_h = pix[2]]
           old_center_x == it.pos_x + (it.resize_start_w \div 2)
           old_center_y == it.pos_y + (it.resize_start_h \div 2)
           placed == IF resize_raises(it, shift)
                     THEN [item |-> flagged, data |-> canvas_images[c],
                           guide_lines |-> smart_guides.guide_lines]
                     ELSE IF alt
                     THEN setPos(it1, canvas_images[c], smart_guides, snap_to_grid, scene,
                                 old_center_x - (new[1] \div 2), old_center_y - (new[2] \div 2))
                     ELSE [item |-> it1, data |-> canvas_images[c],
                           guide_lines |-> smart_guides.guide_lines]
       IN  /\ it.kind = "image" /\ ~it.is_rotating /\ it.is_resizing
           /\ scene' = [scene EXCEPT ![i] = placed.item]
           /\ canvas_images' = [canvas_images EXCEPT ![c] = placed.data]
           /\ smart_guides' = [smart_guides EXCEPT !.guide_lines = placed.guide_lines]
    /\ NoCapture("mouseMoveEvent", "resize")
    /\ ui' = Quiet
    /\ UNCHANGED <<text_items, snap_to_grid, max_history, files, next_uuid, mouse_grabber>>

\* Variant: a pass that draws a guide also shifts the other items by a pixel
mouseMove_move_shifts_others(x, y) ==
    /\ has_uuid(scene, mouse_grabber)
    /\ LET i == index_of(scene, mouse_grabber)
           it == scene[i]
           c == index_of(canvas_images, it.uuid)
           placed == setPos(it, canvas_images[c], smart_guides, snap_to_grid, scene, x, y)
       IN  /\ it.kind = "image" /\ ~it.is_rotating /\ ~it.is_resizing /\ it.movable
           /\ scene' = [k \in DOMAIN scene |->
                          IF k = i THEN placed.item
                          ELSE IF placed.guide_lines # <<>>
                          THEN [scene[k] EXCEPT !.pos_x = @ + PX]
                          ELSE scene[k]]
           /\ canvas_images' = [canvas_images EXCEPT ![c] = placed.data]
           /\ smart_guides' = [smart_guides EXCEPT !.guide_lines = placed.guide_lines]
    /\ NoCapture("mouseMoveEvent", IF scene' # scene THEN "move" ELSE "still")
    /\ ui' = Quiet
    /\ UNCHANGED <<text_items, snap_to_grid, max_history, files, next_uuid, mouse_grabber>>

\* DraggableImageItem.mouseMoveEvent of an item that is neither rotating nor
\* resizing: QGraphicsItem.mouseMoveEvent drags a movable item to (x, y)
mouseMove_move(x, y) ==
    /\ has_uuid(scene, mouse_grabber)
    /\ LET i == index_of(scene, mouse_grabber)
           it == scene[i]
           c == index_of(canvas_images, it.uuid)
           placed == setPos(it, canvas_images[c], smart_guides, snap_to_grid, scene, x, y)
       IN  /\ it.kind = "image" /\ ~it.is_rotating /\ ~it.is_resizing /\ it.movable
           /\ scene' = [scene EXCEPT ![i] = placed.item]
           /\ canvas_images' = [canvas_images EXCEPT ![c] = placed.data]
           /\ smart_guides' = [smart_guides EXCEPT !.guide_lines = placed.guide_lines]
    /\ NoCapture("mouseMoveEvent", IF scene' # scene THEN "move" ELSE "still")
    /\ ui' = Quiet
    /\ UNCHANGED <<text_items, snap_to_grid, max_history, files, next_uuid, mouse_grabber>>

\* Variant: the release that ends a rotation leaves is_rotating set
mouseReleaseEvent_keeps_rotating ==
    /\ has_uuid(scene, mouse_grabber)
    /\ LET i == index_of(scene, mouse_grabber)
           it == scene[i]
           c == index_of(canvas_images, it.uuid)
       IN  /\ it.kind = "image"
           /\ smart_guides' = [smart_guides EXCEPT !.guide_lines = <<>>]
           /\ IF it.is_rotating
              THEN LET images == [canvas_images EXCEPT ![c].rotation = it.rotation]
                   IN  /\ scene' = scene
                       /\ canvas_images' = images
                       /\ Capture(images, "mouseReleaseEvent", "rotate")
              ELSE IF it.is_resizing
              THEN LET images == [canvas_images EXCEPT
                                     ![c].width = pixels_to_cm(it.pix_w, canvas_dpi),
                                     ![c].height = pixels_to_cm(it.pix_h, canvas_dpi),
                                     ![c].x = pixels_to_cm(it.pos_x, canvas_dpi),
                                     ![c].y = pixels_to_cm(it.pos_y, canvas_dpi)]
                   IN  /\ scene' = [scene EXCEPT ![i].is_resizing = FALSE]
                       /\ canvas_images' = images
                       /\ Capture(images, "mouseReleaseEvent", "resize")
              ELSE /\ UNCHANGED <<scene, canvas_images>>
                   /\ NoCapture("mouseReleaseEvent",
                                IF last_op.op = "mouseMoveEvent" /\ last_op.arg = "move"
                                THEN "move" ELSE "click")
    /\ mouse_grabber' = NoUuid
    /\ ui' = Quiet
    /\ UNCHANGED <<text_items, snap_to_grid, max_history, files, next_uuid>>

\* DraggableImageItem.mouseReleaseEvent
mouseReleaseEvent ==
    /\ has_uuid(scene, mouse_grabber)
    /\ LET i == index_of(scene, mouse_grabber)
           it == scene[i]
           c == index_of(canvas_images, it.uuid)
       IN  /\ it.kind = "image"
           /\ smart_guides' = [smart_guides EXCEPT !.guide_lines = <<>>]
           /\ IF it.is_rotating
              THEN LET images == [canvas_images EXCEPT ![c].rotation = it.rotation]
                   IN  /\ scene' = [scene EXCEPT ![i].is_rotating = FALSE]
                       /\ canvas_images' = images
                       /\ Capture(images, "mouseReleaseEvent", "rotate")
              ELSE IF it.is_resizing
              THEN LET images == [canvas_images EXCEPT
                                     ![c].width = pixels_to_cm(it.pix_w, canvas_dpi),
                                     ![c].height = pixels_to_cm(it.pix_h, canvas_dpi),
                                     ![c].x = pixels_to_cm(it.pos_x, canvas_dpi),
                                     ![c].y = pixels_to_cm(it.pos_y, canvas_dpi)]
                   IN  /\ scene' = [scene EXCEPT ![i].is_resizing = FALSE]
                       /\ canvas_images' = images
                       /\ Capture(images, "mouseReleaseEvent", "resize")
              ELSE /\ UNCHANGED <<scene, canvas_images>>
                   /\ NoCapture("mouseReleaseEvent",
                                IF last_op.op = "mouseMoveEvent" /\ last_op.arg = "move"
                                THEN "move" ELSE "click")
    /\ mouse_grabber' = NoUuid
    /\ ui' = Quiet
    /\ UNCHANGED <<text_items, snap_to_grid, max_history, files, next_uuid>>

\* Bounded input choices shared by the specifications
AddInputs     == {<<"a.png", 40 * PX, 60 * PX>>, <<"b.png", 300 * PX, 200 * PX>>}

SessionInputs == {<<"b.png", 300 * PX, 200 * PX>>}

AddImage(limit, inputs) ==
    /\ Len(canvas_images) < limit
    /\ next_uuid <= MaxUuid
    /\ \E a \in inputs : add_image_to_canvas_at_pos(a[1], a[2], a[3])

AddText ==
    /\ Len(text_items) < MaxTexts
    /\ next_uuid <= MaxUuid
    /\ add_text_to_canvas

Next ==
    \/ AddImage(MaxImages, AddInputs)
    \/ \E idx \in 1..MaxImages : select_layer(idx)
    \/ \E angle \in QuarterTurns : rotate_selected(angle)
    \/ toggle_snap
    \/ undo
    \/ redo

Spec == Init /\ [][Next]_vars

NextText ==
    \/ AddImage(1, AddInputs)
    \/ AddText
    \/ \E i \in 1..(1 + MaxTexts) : exit_edit_mode(i)
    \/ \E i \in 1..(1 + MaxTexts) : delete_text_item(i)
    \/ undo
    \/ redo

SpecText == Init /\ [][NextText]_vars

NextRestore ==
    \/ AddImage(RestoreImages, AddInputs)
    \/ \E path \in Paths : remove_file(path)
    \/ undo
    \/ redo

SpecRestore == Init /\ [][NextRestore]_vars

\* The history at the program's own cap: one image raised again and again
NextCap ==
    \/ AddImage(1, SessionInputs)
    \/ \E idx \in DOMAIN canvas_images : select_layer(idx)
    \/ (\A c \in DOMAIN canvas_images : canvas_images[c].z_index < MaxZ) /\ bring_to_front
    \/ undo
    \/ redo

SpecCap == InitWith(max_history_default) /\ [][NextCap]_vars

\* restore_state handed snapshots from outside the history
Snapshots ==
    {<<"garbage", <<>>>>,
     json_dumps([canvas_width |-> canvas_width_cm * CM, canvas_dpi |-> canvas_dpi]),
     json_dumps(serialize_state(<<>>))}

NextInvalid ==
    \/ AddImage(RestoreImages, AddInputs)
    \/ \E t \in Snapshots : restore_state_call(t)
    \/ undo
    \/ redo

SpecInvalid == Init /\ [][NextInvalid]_vars

\* Pointer sessions on one image
MaxSide == 240      \* no resize session starts on a pixmap wider or taller (pixels)
MaxTurn == 360      \* no session starts on an item turned further (degrees)
MinSide == 100      \* no handle of the second editor, and no Alt session, starts on a smaller pixmap
MaxDrift == 20      \* nor on an item whose centre is further from the view's (pixels)

PressHandles  == {"rotation", "br"}
PointerAngles == {0, -93}
ResizeDeltas  == {<<-180 * PX, -180 * PX>>}
DragTargets   == {<<(75 * PX) \div 2, 75 * PX>>}

Press ==
    \E i \in DOMAIN scene, shift \in BOOLEAN :
        \/ \E h \in PressHandles :
              /\ scene[i].pix_w <= MaxSide * PX /\ scene[i].pix_h <= MaxSide * PX
              /\ Abs(scene[i].rotation) <= MaxTurn
              /\ mousePressEvent(i, handle_anchor(scene[i], h)[1],
                                 handle_anchor(scene[i], h)[2], shift, FALSE)
        \/ /\ ~shift
           /\ mousePressEvent(i, scene[i].pix_w \div 2, scene[i].pix_h \div 2, FALSE, FALSE)

NextSession ==
    \/ AddImage(MaxImages, SessionInputs)
    \/ Press
    \/ \E a \in PointerAngles, shift \in BOOLEAN : mouseMove_rotate(a, shift)
    \/ \E d \in ResizeDeltas, shift \in BOOLEAN : mouseMove_resize(d[1], d[2], shift, FALSE)
    \/ \E p \in DragTargets : mouseMove_move(p[1], p[2])
    \/ mouseReleaseEvent
    \/ toggle_snap

SpecSession == Init /\ [][NextSession]_vars

\* ------------------------------------------- ImageItem with handle objects
\* The second editor of the repository keeps its images as ImageItem, each
\* with nine child Handle items that forward the pointer to it.
snap_angle_threshold == 15
minimum_item_size    == 20
max_pixmap_side      == 600
history_manager_max  == 100

\* Transform (dataclass)
Transform(x, y, width, height, rotation) ==
    [x |-> x, y |-> y, width |-> width, height |-> height, rotation |-> rotation]

NoTransform == [x |-> 0, y |-> 0, width |-> 0, height |-> 0, rotation |-> -1]

\* ImageItem.__init__ for a w x h pixmap (whole pixels).  grabbing is the
\* type of the child Handle that holds the pointer grab, "none" otherwise;
\* original_aspect_ratio is the pair <<width, height>> whose quotient it is.
ImageItem(uuid, path, w, h) ==
    [kind |-> "ImageItem", uuid |-> uuid, image_path |-> path,
     pos_x |-> 0, pos_y |-> 0, pix_w |-> w * PX, pix_h |-> h * PX,
     rotation |-> 0, selected |-> FALSE,
     original_aspect_ratio |-> IF h > 0 THEN <<w, h>> ELSE <<1, 1>>,
     transform_data |-> Transform(0, 0, w * PX, h * PX, 0),
     active_handle |-> "none", transform_start_data |-> NoTransform,
     grabbing |-> "none"]

CornerHandles == {"corner_nw", "corner_ne", "corner_sw", "corner_se"}
SideHandles   == {"side_n", "side_s", "side_e", "side_w"}

\* MathUtils.snap_angle(angle): the first listed angle closer than the
\* threshold to the normalised angle, the angle itself when there is none
snap_angles == [k \in 1..25 |-> 15 * (k - 1)]

RECURSIVE snap_angle_from(_, _, _)
snap_angle_from(angle, normalized, snaps) ==
    IF snaps = <<>> THEN angle
    ELSE IF Abs(normalized - Head(snaps)) < snap_angle_threshold THEN Head(snaps)
    ELSE snap_angle_from(angle, normalized, Tail(snaps))

snap_angle(angle) == snap_angle_from(angle, angle % 360, snap_angles)

\* ImageItem.perform_rotation(scene_pos, snap); pointer_angle is
\* MathUtils.angle_between_points(center, scene_pos), in whole degrees
rotation_angle(pointer_angle, snap) ==
    IF snap THEN snap_angle((pointer_angle + 90) % 360)
    ELSE (pointer_angle + 90) % 360

perform_rotation(it, pointer_angle, snap) ==
    [it EXCEPT !.rotation = rotation_angle(pointer_angle, snap),
               !.transform_data.rotation = rotation_angle(pointer_angle, snap)]

\* perform_resize, first part: size and position for the pointer delta
\* (dx, dy), in item coordinates, before the proportion is restored
resize_by_handle(sd, handle_type, dx, dy) ==
    CASE handle_type = "corner_se" ->
            Transform(sd.x, sd.y, sd.width + dx, sd.height + dy, sd.rotation)
      [] handle_type = "corner_nw" ->
            Transform(sd.x + dx, sd.y + dy, sd.width - dx, sd.height - dy, sd.rotation)
      [] handle_type = "corner_ne" ->
            Transform(sd.x, sd.y + dy, sd.width + dx, sd.height - dy, sd.rotation)
      [] handle_type = "corner_sw" ->
            Transform(sd.x + dx, sd.y, sd.width - dx, sd.height + dy, sd.rotation)
      [] handle_type = "side_e" ->
            Transform(sd.x, sd.y, sd.width + dx, sd.height, sd.rotation)
      [] handle_type = "side_w" ->
            Transform(sd.x + dx, sd.y, sd.width - dx, sd.height, sd.rotation)
      [] handle_type = "side_s" ->
            Transform(sd.x, sd.y, sd.width, sd.height + dy, sd.rotation)
      [] handle_type = "side_n" ->
            Transform(sd.x, sd.y + dy, sd.width, sd.height - dy, sd.rotation)
      [] OTHER -> sd

\* "Ajustar posicion si es necesario": the corner opposite to the handle
\* stays where it was
anchor_opposite(t, sd, handle_type) ==
    [t EXCEPT !.x = IF handle_type \in {"corner_nw", "corner_sw"}
                    THEN sd.x + (sd.width - t.width) ELSE @,
              !.y = IF handle_type \in {"corner_nw", "corner_ne"}
                    THEN sd.y + (sd.height - t.height) ELSE @]

\* "Mantener aspect ratio": the side that changed less follows the other
keep_proportion(t, sd, handle_type, ratio) ==
    IF Abs(t.width - sd.width) > Abs(t.height - sd.height)
    THEN anchor_opposite([t EXCEPT !.height = (t.width * ratio[2]) \div ratio[1]],
                         sd, handle_type)
    ELSE anchor_opposite([t EXCEPT !.width = (t.height * ratio[1]) \div ratio[2]],
                         sd, handle_type)

\* "Tamano minimo"
minimum_size_floor(t) ==
    [t EXCEPT !.width = Max2(minimum_item_size * PX, @),
              !.height = Max2(minimum_item_size * PX, @)]

\* The size and position perform_resize arrives at
resized(it, handle_type, dx, dy, free_transform) ==
    minimum_size_floor(
        IF handle_type \in CornerHandles /\ ~free_transform
        THEN keep_proportion(resize_by_handle(it.transform_start_data, handle_type, dx, dy),
                             it.transform_start_data, handle_type, it.original_aspect_ratio)
        ELSE resize_by_handle(it.transform_start_data, handle_type, dx, dy))

\* "Aplicar cambios": the pixmap scaled to whole pixels, setPos and the
\* transform data
apply_resize(it, t) ==
    [it EXCEPT !.pix_w = int_px(t.width), !.pix_h = int_px(t.height),
               !.pos_x = t.x, !.pos_y = t.y,
               !.transform_data = Transform(t.x, t.y, t.width, t.height,
                                            it.transform_data.rotation)]

\* ImageItem.perform_resize(handle_type, scene_pos, keep_aspect, free_transform)
perform_resize(it, handle_type, dx, dy, keep_aspect, free_transform) ==
    apply_resize(it, resized(it, handle_type, dx, dy, free_transform))

\* ImageItem.start_transform(handle_type, scene_pos).  The start position of
\* the pointer is not kept: update_transform uses it only to form the
\* pointer delta, which is that handler's input here.
start_transform(it, handle_type) ==
    [it EXCEPT !.active_handle = handle_type,
               !.transform_start_data = it.transform_data]

\* ImageItem.update_transform without its first two lines
update_transform_unguarded(it, handle_type, p, shift_pressed, alt_pressed) ==
    IF handle_type = "rotation"
    THEN perform_rotation(it, p.angle, shift_pressed)
    ELSE perform_resize(it, handle_type, p.dx, p.dy, shift_pressed, alt_pressed)

\* ImageItem.update_transform(handle_type, scene_pos); p describes the
\* pointer: its polar angle about the item's centre and its delta since the
\* press
update_transform(it, handle_type, p, shift_pressed, alt_pressed) ==
    IF it.active_handle = "none" \/ it.transform_start_data = NoTransform
    THEN it
    ELSE IF handle_type = "rotation"
    THEN perform_rotation(it, p.angle, shift_pressed)
    ELSE perform_resize(it, handle_type, p.dx, p.dy, shift_pressed, alt_pressed)

\* ImageItem.end_transform(handle_type)
end_transform(it, handle_type) ==
    [it EXCEPT !.active_handle = "none", !.transform_start_data = NoTransform]

\* CanvasEditor.add_image_to_canvas(image_path) of the second editor; the
\* picture is centred on (view_x, view_y), the middle of the view
add_image_to_canvas(path, view_x, view_y) ==
    /\ path \in files
    /\ LET pix == IF file_width(path) > max_pixmap_side \/ file_height(path) > max_pixmap_side
                  THEN scaled_keep_aspect(file_width(path), file_height(path),
                                          max_pixmap_side, max_pixmap_side)
                  ELSE <<file_width(path), file_height(path)>>
           image_item == ImageItem(next_uuid, path, pix[1], pix[2])
           x == view_x - (pix[1] * PX) \div 2
           y == view_y - (pix[2] * PX) \div 2
       IN  scene' = Append([k \in DOMAIN scene |-> [scene[k] EXCEPT !.selected = FALSE]],
                           [image_item EXCEPT !.pos_x = x, !.pos_y = y,
                                              !.transform_data.x = x,
                                              !.transform_data.y = y,
                                              !.selected = TRUE])
    /\ next_uuid' = next_uuid + 1
    /\ NoCapture("add_image_to_canvas", path)
    /\ ui' = Quiet
    /\ UNCHANGED <<canvas_images, text_items, smart_guides, snap_to_grid, max_history,
                   files, mouse_grabber>>

\* Handle.mousePressEvent on the handle handle_type of item i.  The handles
\* of an item are visible, and so receive the pointer, while it is selected.
Handle_mousePressEvent(i, handle_type, button) ==
    /\ mouse_grabber = NoUuid
    /\ i \in DOMAIN scene /\ scene[i].kind = "ImageItem" /\ scene[i].selected
    /\ scene' = [scene EXCEPT ![i] =
                    [(IF button = "left" THEN start_transform(scene[i], handle_type)
                      ELSE scene[i]) EXCEPT !.grabbing = handle_type]]
    /\ mouse_grabber' = scene[i].uuid
    /\ NoCapture("Handle.mousePressEvent", [handle |-> handle_type, button |-> button])
    /\ ui' = Quiet
    /\ UNCHANGED <<canvas_images, text_items, smart_guides, snap_to_grid, max_history,
                   files, next_uuid>>

\* Handle.mouseMoveEvent of the handle that holds the pointer grab
Handle_mouseMoveEvent(p, shift_pressed, alt_pressed) ==
    /\ has_uuid(scene, mouse_grabber)
    /\ LET i == index_of(scene, mouse_grabber)
       IN  /\ scene[i].kind = "ImageItem" /\ scene[i].grabbing # "none"
           /\ scene' = [scene EXCEPT ![i] =
                           update_transform(scene[i], scene[i].grabbing, p,
                                            shift_pressed, alt_pressed)]
           /\ NoCapture("Handle.mouseMoveEvent",
                        [handle |-> scene[i].grabbing,
                         session |-> scene[i].active_handle # "none",
                         angle |-> (p.angle + 90) % 360,
                         shift |-> shift_pressed, alt |-> alt_pressed])
    /\ ui' = Quiet
    /\ UNCHANGED <<canvas_images, text_items, smart_guides, snap_to_grid, max_history,
                   files, next_uuid, mouse_grabber>>

\* Handle.mouseReleaseEvent of the handle that holds the pointer grab
Handle_mouseReleaseEvent ==
    /\ has_uuid(scene, mouse_grabber)
    /\ LET i == index_of(scene, mouse_grabber)
       IN  /\ scene[i].kind = "ImageItem" /\ scene[i].grabbing # "none"
           /\ scene' = [scene EXCEPT ![i] =
                           [end_transform(scene[i], scene[i].grabbing)
                                EXCEPT !.grabbing = "none"]]
           /\ NoCapture("Handle.mouseReleaseEvent",
                        [handle |-> scene[i].grabbing,
                         session |-> scene[i].active_handle # "none"])
    /\ mouse_grabber' = NoUuid
    /\ ui' = Quiet
    /\ UNCHANGED <<canvas_images, text_items, smart_guides, snap_to_grid, max_history,
                   files, next_uuid>>

\* The second editor after CanvasEditor.__init__: an empty scene and an
\* empty HistoryManager (its add_action has no caller)
InitHandles ==
    /\ canvas_images = <<>>
    /\ text_items = <<>>
    /\ scene = <<>>
    /\ smart_guides = [enabled |-> FALSE, guide_lines |-> <<>>]
    /\ snap_to_grid = FALSE
    /\ history = <<>>
    /\ history_index = -1
    /\ max_history = history_manager_max
    /\ files = Paths
    /\ next_uuid = 1
    /\ mouse_grabber = NoUuid
    /\ last_op = Op("__init__", "", 0, 0, FALSE, NoSnapshot)
    /\ ui = Quiet

HandleTypes    == {"rotation", "corner_se", "corner_nw", "side_e"}
Buttons        == {"left", "right"}
HandlePointers ==
    {[angle |-> -76, dx |-> -190 * PX, dy |-> -190 * PX],
     [angle |-> 7, dx |-> 30 * PX, dy |-> 10 * PX]}

\* The middle of the view, where the second editor drops a new image
ViewCentre == <<400 * PX, 300 * PX>>

PressHandle ==
    \E i \in DOMAIN scene, h \in HandleTypes, b \in Buttons :
        /\ scene[i].pix_w <= MaxSide * PX /\ scene[i].pix_h <= MaxSide * PX
        /\ scene[i].pix_w >= MinSide * PX /\ scene[i].pix_h >= MinSide * PX
        /\ Abs(scene[i].pos_x + scene[i].pix_w \div 2 - ViewCentre[1]) <= MaxDrift * PX
        /\ Abs(scene[i].pos_y + scene[i].pix_h \div 2 - ViewCentre[2]) <= MaxDrift * PX
        /\ Handle_mousePressEvent(i, h, b)

NextHandles ==
    \/ /\ Len(scene) < MaxImages
       /\ add_image_to_canvas("b.png", ViewCentre[1], ViewCentre[2])
    \/ PressHandle
    \/ \E p \in HandlePointers, shift \in BOOLEAN, alt \in BOOLEAN :
          Handle_mouseMoveEvent(p, shift, alt)
    \/ Handle_mouseReleaseEvent

SpecHandles == InitHandles /\ [][NextHandles]_vars

\* Rotate sessions and rotate commands on one image
RotateAngles == {0, -110, 180}

PressRotation ==
    \E i \in DOMAIN scene :
        /\ Abs(scene[i].rotation) <= MaxTurn
        /\ mousePressEvent(i, handle_anchor(scene[i], "rotation")[1],
                           handle_anchor(scene[i], "rotation")[2], FALSE, FALSE)

NextRotate ==
    \/ AddImage(MaxImages, SessionInputs)
    \/ \E idx \in DOMAIN canvas_images : select_layer(idx)
    \/ PressRotation
    \/ \E a \in RotateAngles, shift \in BOOLEAN : mouseMove_rotate(a, shift)
    \/ mouseReleaseEvent
    \/ \E angle \in QuarterTurns : rotate_selected(angle)

SpecRotate == Init /\ [][NextRotate]_vars

\* ------------------------------------------------- moves and smart guides
\* Pointer events of DraggableTextItem.  The class overrides none of them:
\* while the item takes no text interaction, QGraphicsTextItem hands them to
\* QGraphicsItem, which selects the item at the press, drags a movable item
\* at each move and does nothing more at the release.
text_mousePressEvent(i) ==
    /\ mouse_grabber = NoUuid
    /\ i \in DOMAIN scene /\ scene[i].kind = "text" /\ ~scene[i].is_editing
    /\ scene' = IF scene[i].selected THEN scene
                ELSE [k \in DOMAIN scene |-> [scene[k] EXCEPT !.selected = (k = i)]]
    /\ mouse_grabber' = scene[i].uuid
    /\ NoCapture("text.mousePressEvent", "")
    /\ ui' = Quiet
    /\ UNCHANGED <<canvas_images, text_items, smart_guides, snap_to_grid, max_history,
                   files, next_uuid>>

text_mouseMoveEvent(x, y) ==
    /\ has_uuid(scene, mouse_grabber)
    /\ LET i == index_of(scene, mouse_grabber)
           it == scene[i]
           k == index_of(text_items, it.uuid)
           placed == setPos(it, text_items[k], smart_guides, snap_to_grid, scene, x, y)
       IN  /\ it.kind = "text" /\ it.movable
           /\ scene' = [scene EXCEPT ![i] = placed.item]
           /\ text_items' = [text_items EXCEPT ![k] = placed.data]
           /\ smart_guides' = [smart_guides EXCEPT !.guide_lines = placed.guide_lines]
    /\ NoCapture("text.mouseMoveEvent", IF scene' # scene THEN "move" ELSE "still")
    /\ ui' = Quiet
    /\ UNCHANGED <<canvas_images, snap_to_grid, max_history, files, next_uuid,
                   mouse_grabber>>

text_mouseReleaseEvent ==
    /\ has_uuid(scene, mouse_grabber)
    /\ scene[index_of(scene, mouse_grabber)].kind = "text"
    /\ mouse_grabber' = NoUuid
    /\ NoCapture("text.mouseReleaseEvent", "")
    /\ ui' = Quiet
    /\ UNCHANGED <<canvas_images, text_items, scene, smart_guides, snap_to_grid,
                   max_history, files, next_uuid>>

\* "state == Qt.CheckState.Checked" of toggle_smart_guides: state is the int
\* carried by QCheckBox.stateChanged, and in PyQt6 no int equals a member of
\* the enum
state_is_checked(state) == FALSE

\* CanvasEditor.toggle_smart_guides(state); state is 2 (checked) or 0
toggle_smart_guides(state) ==
    /\ smart_guides' = [enabled |-> state_is_checked(state),
                        guide_lines |-> IF state_is_checked(state)
                                        THEN smart_guides.guide_lines ELSE <<>>]
    /\ NoCapture("toggle_smart_guides", state)
    /\ ui' = Quiet
    /\ UNCHANGED <<canvas_images, text_items, scene, snap_to_grid, max_history,
                   files, next_uuid, mouse_grabber>>

\* Left press on the picture of image i, away from its handles
PressPicture ==
    \E i \in DOMAIN scene :
        mousePressEvent(i, scene[i].pix_w \div 2, scene[i].pix_h \div 2, FALSE, FALSE)

\* Drags among several images.  The k-th image dropped on the canvas and the
\* places the pointer drags an image to:
GuideImages == 3

GuideInput(k) ==
    CASE k = 1 -> <<"b.png", 40 * PX, 149 * PX>>
      [] k = 2 -> <<"b.png", 316 * PX, 103 * PX>>
      [] OTHER -> <<"a.png", 580 * PX, 300 * PX>>

GuideTargets == {<<580 * PX, 100 * PX>>, <<43 * PX, 600 * PX>>, <<309 * PX, 600 * PX>>}

\* Left press on the picture of the image dropped last
PressNewest ==
    /\ scene # <<>>
    /\ mousePressEvent(Len(scene), scene[Len(scene)].pix_w \div 2,
                       scene[Len(scene)].pix_h \div 2, FALSE, FALSE)

NextGuides ==
    \/ /\ mouse_grabber = NoUuid
       /\ AddImage(GuideImages, {GuideInput(Len(canvas_images) + 1)})
    \/ PressNewest
    \/ \E p \in GuideTargets : mouseMove_move(p[1], p[2])
    \/ mouseReleaseEvent

SpecGuides == Init /\ [][NextGuides]_vars

\* Drags of an image and of a text object, with the grid and the guides
\* switched by their check boxes.  The pointer that holds an item in a drag
\* reaches no other widget, so everything but the drag waits for the release.
MoveTargets == {<<100 * PX, 200 * PX>>, <<250 * PX, 400 * PX>>}

NextMoves ==
    \/ /\ mouse_grabber = NoUuid
       /\ \/ AddImage(MaxImages, SessionInputs)
          \/ AddText
          \/ \E i \in DOMAIN scene : exit_edit_mode(i)
          \/ PressPicture
          \/ \E i \in DOMAIN scene : text_mousePressEvent(i)
          \/ toggle_snap
          \/ \E state \in {0, 2} : toggle_smart_guides(state)
    \/ \E p \in MoveTargets : mouseMove_move(p[1], p[2])
    \/ \E p \in MoveTargets : text_mouseMoveEvent(p[1], p[2])
    \/ mouseReleaseEvent
    \/ text_mouseReleaseEvent

SpecMoves == Init /\ [][NextMoves]_vars

\* ----------------------------------------------- lock and removal in a session
\* CanvasEditor.toggle_lock_selected (the lock button, with an image selected)
toggle_lock_selected ==
    /\ selected_images(scene) # {}
    /\ LET sel == {scene[i].uuid : i \in selected_images(scene)}
           images == [c \in DOMAIN canvas_images |->
                        IF canvas_images[c].uuid \in sel
                        THEN [canvas_images[c] EXCEPT !.locked = ~@]
                        ELSE canvas_images[c]]
       IN  /\ canvas_images' = images
           /\ scene' = [i \in DOMAIN scene |->
                          IF i \in selected_images(scene)
                          THEN [scene[i] EXCEPT !.movable =
                                   ~images[index_of(images, scene[i].uuid)].locked]
                          ELSE scene[i]]
           /\ Capture(images, "toggle_lock_selected", "")
    /\ ui' = Quiet
    /\ UNCHANGED <<text_items, smart_guides, snap_to_grid, max_history, files,
                   next_uuid, mouse_grabber>>

\* CanvasEditor.delete_selected: the selected images that are not locked
\* leave the scene and canvas_images
delete_selected ==
    /\ selected_images(scene) # {}
    /\ LET gone == {scene[i].uuid : i \in {k \in selected_images(scene) :
                        ~canvas_images[index_of(canvas_images, scene[k].uuid)].locked}}
           sc == SelectSeq(scene, LAMBDA it : it.uuid \notin gone)
           images == SelectSeq(canvas_images, LAMBDA img : img.uuid \notin gone)
       IN  /\ scene' = sc
           /\ canvas_images' = images
           /\ mouse_grabber' = grab_after(sc)
           /\ Capture(images, "delete_selected", "")
    /\ ui' = Quiet
    /\ UNCHANGED <<text_items, smart_guides, snap_to_grid, max_history, files, next_uuid>>

\* Sessions on one image, with the lock button and the Delete key pressed
\* at any time, a session in progress included
NextLock ==
    \/ AddImage(MaxImages, SessionInputs)
    \/ \E idx \in DOMAIN canvas_images : select_layer(idx)
    \/ Press
    \/ \E a \in PointerAngles : mouseMove_rotate(a, FALSE)
    \/ \E d \in ResizeDeltas : mouseMove_resize(d[1], d[2], FALSE, FALSE)
    \/ \E p \in DragTargets : mouseMove_move(p[1], p[2])
    \/ mouseReleaseEvent
    \/ toggle_lock_selected
    \/ delete_selected

SpecLock == Init /\ [][NextLock]_vars

\* ------------------------------------------------------- properties panel
\* CanvasEditor.update_selected_position: valueChanged of the X or Y spin
\* box, which hold x_cm and y_cm when the signal arrives, with one image
\* selected
update_selected_position(x_cm, y_cm) ==
    /\ selected_images(scene) # {}
    /\ LET sel == selected_images(scene)
           moved(i) == setPos(scene[i],
                              [canvas_images[index_of(canvas_images, scene[i].uuid)]
                                  EXCEPT !.x = x_cm, !.y = y_cm],
                              smart_guides, snap_to_grid, scene,
                              cm_to_pixels(x_cm, canvas_dpi), cm_to_pixels(y_cm, canvas_dpi))
           only == CHOOSE i \in sel : TRUE
           images == [canvas_images EXCEPT
                         ![index_of(canvas_images, scene[only].uuid)] = moved(only).data]
       IN  /\ Cardinality(sel) = 1
           /\ scene' = [scene EXCEPT ![only] = moved(only).item]
           /\ canvas_images' = images
           /\ smart_guides' = [smart_guides EXCEPT !.guide_lines = moved(only).guide_lines]
           /\ Capture(images, "update_selected_position", "")
    /\ ui' = Quiet
    /\ UNCHANGED <<text_items, snap_to_grid, max_history, files, next_uuid, mouse_grabber>>

\* CanvasEditor.update_selected_rotation: valueChanged of the rotation spin
\* box, whose range is 0..359
update_selected_rotation(rotation) ==
    /\ selected_images(scene) # {}
    /\ LET sel == {scene[i].uuid : i \in selected_images(scene)}
           images == [c \in DOMAIN canvas_images |->
                        IF canvas_images[c].uuid \in sel
                        THEN [canvas_images[c] EXCEPT !.rotation = rotation]
                        ELSE canvas_images[c]]
       IN  /\ canvas_images' = images
           /\ scene' = [i \in DOMAIN scene |->
                          IF i \in selected_images(scene)
                          THEN [scene[i] EXCEPT !.rotation = rotation]
                          ELSE scene[i]]
           /\ Capture(images, "update_selected_rotation", "")
    /\ ui' = Quiet
    /\ UNCHANGED <<text_items, smart_guides, snap_to_grid, max_history, files,
                   next_uuid, mouse_grabber>>

\* Edits in the properties panel, commands and pointer sessions on one
\* image that the lock button locks and unlocks between sessions
PanelPositions == {<<8 * CM, 3 * CM>>}
PanelRotations == {90}

NextPanel ==
    \/ /\ mouse_grabber = NoUuid
       /\ \/ AddImage(MaxImages, SessionInputs)
          \/ \E idx \in DOMAIN canvas_images : select_layer(idx)
          \/ Press
          \/ toggle_lock_selected
          \/ \E p \in PanelPositions : update_selected_position(p[1], p[2])
          \/ \E r \in PanelRotations : update_selected_rotation(r)
          \/ rotate_selected(90)
    \/ \E a \in PointerAngles : mouseMove_rotate(a, FALSE)
    \/ \E p \in DragTargets : mouseMove_move(p[1], p[2])
    \/ mouseReleaseEvent

SpecPanel == Init /\ [][NextPanel]_vars

\* Resize sessions from the top-left corner and the left and top sides of
\* one image
StartSideHandles == {"tl", "l", "t"}
CornerDeltas   == {<<60 * PX, 30 * PX>>, <<-60 * PX, -30 * PX>>}

PressCorner ==
    \E i \in DOMAIN scene, h \in StartSideHandles :
        /\ scene[i].pix_w <= MaxSide * PX /\ scene[i].pix_h <= MaxSide * PX
        /\ mousePressEvent(i, handle_anchor(scene[i], h)[1],
                           handle_anchor(scene[i], h)[2], FALSE, FALSE)

NextCorner ==
    \/ AddImage(MaxImages, SessionInputs)
    \/ PressCorner
    \/ \E d \in CornerDeltas : mouseMove_resize(d[1], d[2], FALSE, FALSE)
    \/ mouseReleaseEvent

SpecCorner == Init /\ [][NextCorner]_vars

\* Resize sessions with Alt held from the press to the release, on one
\* image that has not slid far from where it was dropped
MaxSlide == 30      \* no Alt session goes on once the item is further away (pixels)

CentreDeltas == {<<60 * PX, 30 * PX>>, <<-60 * PX, -30 * PX>>}

\* Where the image of SessionInputs lands: the detector centres it on x
DropPlace == <<scene_width \div 2, 200 * PX>>

near_drop_place(it) ==
    /\ Abs(it.pos_x - DropPlace[1]) <= MaxSlide * PX
    /\ Abs(it.pos_y - DropPlace[2]) <= MaxSlide * PX

PressCentre ==
    \E i \in DOMAIN scene :
        /\ scene[i].pix_w <= MaxSide * PX /\ scene[i].pix_h <= MaxSide * PX
        /\ scene[i].pix_w >= MinSide * PX
        /\ near_drop_place(scene[i])
        /\ mousePressEvent(i, handle_anchor(scene[i], "br")[1],
                           handle_anchor(scene[i], "br")[2], FALSE, TRUE)

NextCentre ==
    \/ AddImage(MaxImages, SessionInputs)
    \/ PressCentre
    \/ \E d \in CentreDeltas :
          /\ has_uuid(scene, mouse_grabber)
          /\ near_drop_place(scene[index_of(scene, mouse_grabber)])
          /\ mouseMove_resize(d[1], d[2], FALSE, TRUE)
    \/ mouseReleaseEvent

SpecCentre == Init /\ [][NextCentre]_vars

\* ------------------------------------------------- drags next to a hidden image
\* A snapshot whose only image is hidden ('visible': false): restore_state
\* builds the object from it and calls setVisible(False) on its graphics item.
HiddenUuid == MaxUuid + 1

HiddenSnapshot ==
    json_dumps(serialize_state(
        <<CanvasImageItem(HiddenUuid, "b.png", 2 * CM, 2 * CM,
                          initial_width_cm * CM, (initial_width_cm * CM) \div 2,
                          0, 0, FALSE, FALSE, 100,
                          <<file_height("b.png"), file_width("b.png")>>)>>))

\* The places the pointer drags an image to: beside the hidden image's left
\* edge, level with its top edge, and away from it
HiddenTargets == {<<77 * PX, 300 * PX>>, <<500 * PX, 79 * PX>>, <<600 * PX, 500 * PX>>}

\* Left press on the picture of the newest image; a hidden item gets no event
PressShown ==
    /\ scene # <<>>
    /\ scene[Len(scene)].visible
    /\ mousePressEvent(Len(scene), scene[Len(scene)].pix_w \div 2,
                       scene[Len(scene)].pix_h \div 2, FALSE, FALSE)

NextHidden ==
    \/ /\ mouse_grabber = NoUuid
       /\ \/ AddImage(RestoreImages, SessionInputs)
          \/ restore_state_call(HiddenSnapshot)
    \/ PressShown
    \/ \E p \in HiddenTargets : mouseMove_move(p[1], p[2])
    \/ mouseReleaseEvent

SpecHidden == Init /\ [][NextHidden]_vars

\* ------------------------------------------- drags with the detector on and off
\* The drags of SpecGuides, with the smart guides check box switched between
\* drags
NextPasses ==
    \/ /\ mouse_grabber = NoUuid
       /\ \/ AddImage(GuideImages, {GuideInput(Len(canvas_images) + 1)})
          \/ \E state \in {0, 2} : toggle_smart_guides(state)
    \/ PressNewest
    \/ \E p \in GuideTargets : mouseMove_move(p[1], p[2])
    \/ mouseReleaseEvent

SpecPasses == Init /\ [][NextPasses]_vars

\* ------------------------------------------------------------ properties
Range(seq) == {seq[k] : k \in DOMAIN seq}

\* The image entries of the snapshot at the current index
current_snapshot_images == json_loads(history[history_index + 1]).value.images

\* The live images, written the way a snapshot writes them
live_images == [i \in DOMAIN canvas_images |-> image_dict(canvas_images[i])]

live_snapshot == json_dumps(serialize_state(canvas_images))

\* C1: after any sequence of captures, undos and redos the history stack is
\* non-empty and 0 <= history_index < len(history), also when a capture
\* happens at the cap or after undos.
C1_IndexWithinHistory ==
    /\ Len(history) > 0
    /\ 0 <= history_index
    /\ history_index < Len(history)

\* a capture at the cap that dropped the oldest snapshot
C1_CaptureAtCap == last_op.captures = 1 /\ last_op.dropped /\ Len(history) = max_history

\* C2: after an undo or a redo that restored a snapshot, the live images
\* equal that snapshot field by field (same objects, position, size,
\* rotation, z-order, opacity, locked, visible).
C2_RestoreEqualsSnapshot ==
    (last_op.op \in {"undo", "redo"} /\ last_op.arg = "restored")
        => live_images = current_snapshot_images

\* C3: a capture made while the index is below the tail discards every
\* snapshot after the index and appends the new one; right after any capture
\* the index is at the tail, so redo has nothing to do; undo and redo never
\* put a snapshot back into the stack.
C3_CapturePrunesRedoBranch ==
    [][/\ last_op'.captures = 1 =>
            /\ history_index' = Len(history') - 1
            /\ history_index < Len(history) - 1 =>
                  /\ Len(history') = history_index + 2
                  /\ SubSeq(history', 1, history_index + 1)
                        = SubSeq(history, 1, history_index + 1)
                  /\ history'[Len(history')] = live_snapshot'
       /\ last_op'.op \in {"undo", "redo"} => history' = history]_vars

\* a capture that followed an undo and pruned the redo branch
C3_PrunedAfterUndo == last_op.captures = 1 /\ last_op.pruned > 0

\* C4: the history never holds more than 50 snapshots, and the snapshot
\* dropped to respect the cap is neither in the stack nor the live state
\* that repeated undo reaches.
C4_HistoryBounded ==
    /\ Len(history) <= max_history_default
    /\ last_op.evicted # NoSnapshot =>
          /\ last_op.evicted \notin Range(history)
          /\ live_snapshot # last_op.evicted

\* undo repeated down to the bottom of a full stack after a snapshot was dropped
C4_UndoneToBottomAfterDrop ==
    /\ last_op.op = "undo" /\ last_op.arg = "nothing"
    /\ last_op.evicted # NoSnapshot
    /\ Len(history) = max_history_default

\* C5: right after a capture every object of the live scene, image or text,
\* is present in the snapshot just recorded.
C5_CaptureRecordsEveryObject ==
    last_op.captures = 1 =>
        /\ \A i \in DOMAIN canvas_images :
              \E k \in DOMAIN current_snapshot_images :
                  current_snapshot_images[k].uuid = canvas_images[i].uuid
        /\ \A t \in DOMAIN text_items :
              \E k \in DOMAIN current_snapshot_images :
                  current_snapshot_images[k].uuid = text_items[t].uuid

\* C6: undo at index 0 and redo at the tail change neither the stack, the
\* index nor the scene; otherwise undo lowers the index by exactly one and
\* redo raises it by exactly one, the scene being rebuilt from the snapshot
\* at the new index; neither changes the stack.
C6_UndoRedoFrame ==
    [][/\ last_op'.op = "undo" =>
            /\ history' = history
            /\ IF history_index = 0
               THEN UNCHANGED <<history_index, canvas_images, text_items, scene>>
               ELSE /\ history_index' = history_index - 1
                    /\ canvas_images' = Restored(history[history_index' + 1]).canvas_images
       /\ last_op'.op = "redo" =>
            /\ history' = history
            /\ IF history_index = Len(history) - 1
               THEN UNCHANGED <<history_index, canvas_images, text_items, scene>>
               ELSE /\ history_index' = history_index + 1
                    /\ canvas_images' = Restored(history[history_index' + 1]).canvas_images]_vars

\* undo with nothing left to undo while an image is selected on the canvas
C6_UndoAtBottom ==
    /\ last_op.op = "undo" /\ last_op.arg = "nothing"
    /\ \E i \in DOMAIN scene : scene[i].selected

\* C7: restore_state on a text that does not decode, or that decodes to a
\* state without the list of images, leaves the live scene exactly as it was
\* and raises an error.
C7_InvalidRestoreLeavesScene ==
    [][(last_op'.op = "restore_state" /\ last_op'.arg \in {"undecodable", "no images"})
          => /\ canvas_images' = canvas_images
             /\ scene' = scene
             /\ ui'.errors >= 1]_vars

\* C8: a restore skips each image whose file is missing and lists it with its
\* path and reason, restores every other image of the snapshot, and hands
\* the list over exactly once (never when nothing is missing), with no error.
C8_MissingAssetsSkipped ==
    (last_op.op \in {"undo", "redo"} /\ last_op.arg = "restored") =>
        LET present == SelectSeq(current_snapshot_images, LAMBDA d : d.path \in files)
            missing == SelectSeq(current_snapshot_images, LAMBDA d : d.path \notin files)
        IN  /\ [i \in DOMAIN canvas_images |-> canvas_images[i].uuid]
                  = [k \in DOMAIN present |-> present[k].uuid]
            /\ \A i \in DOMAIN canvas_images :
                  \E j \in DOMAIN scene : scene[j].uuid = canvas_images[i].uuid
            /\ ui.errors = 0
            /\ ui.dialogs = IF missing = <<>> THEN <<>>
                            ELSE <<[k \in DOMAIN missing |->
                                       [path |-> missing[k].path,
                                        reason |-> "Archivo no encontrado"]]>>

\* a restore of a snapshot whose first image is missing and whose second is not
C8_RestoredAroundMissing ==
    /\ last_op.op \in {"undo", "redo"} /\ last_op.arg = "restored"
    /\ Len(current_snapshot_images) = 2
    /\ current_snapshot_images[1].path \notin files
    /\ current_snapshot_images[2].path \in files

\* C9: the release that ends a move, a resize or a rotate records exactly
\* one snapshot, and that snapshot is the resulting scene.
C9_ReleaseRecordsSnapshot ==
    (last_op.op = "mouseReleaseEvent" /\ last_op.arg \in {"move", "resize", "rotate"})
        => /\ last_op.captures = 1
           /\ history[history_index + 1] = live_snapshot

\* C10: while an image is being resized its width and height stay at or
\* above the minimum size, whatever the handle, the modifiers and the delta.
C10_ResizeKeepsMinimum ==
    (last_op.op = "mouseMoveEvent" /\ last_op.arg = "resize") =>
        \A i \in DOMAIN scene :
            scene[i].is_resizing =>
                /\ scene[i].pix_w >= minimum_size * PX
                /\ scene[i].pix_h >= minimum_size * PX

\* The item that holds the pointer grab
grabbed_item == scene[index_of(scene, mouse_grabber)]

\* C11: after every update of a resize session on a corner handle with the
\* constrain key (Shift) held, whatever the pointer delta, the item's width
\* and height are in the picture's original proportion:
\* width / height = original_aspect_ratio.
C11_ConstrainKeepsAspect ==
    (/\ last_op.op = "Handle.mouseMoveEvent"
     /\ last_op.arg.session
     /\ last_op.arg.handle \in CornerHandles
     /\ last_op.arg.shift)
    => grabbed_item.transform_data.width * grabbed_item.original_aspect_ratio[2]
         = grabbed_item.transform_data.height * grabbed_item.original_aspect_ratio[1]

\* C12: after every update of a rotate session with the constrain key
\* (Shift) held, the item's rotation is a multiple of 15 degrees and lies
\* within 7.5 degrees of the unconstrained pointer angle.
C12_ConstrainedRotationNearest ==
    (/\ last_op.op = "Handle.mouseMoveEvent"
     /\ last_op.arg.session
     /\ last_op.arg.handle = "rotation"
     /\ last_op.arg.shift)
    => /\ grabbed_item.rotation % 15 = 0
       /\ 2 * Abs(grabbed_item.rotation - last_op.arg.angle) <= 15

\* C13: in every reachable state the rotation of every object is in
\* [0, 360): on the graphics item during and after a rotate drag or a
\* rotate command, on the data object once the session has stored it, and
\* in every snapshot of the history.
C13_RotationNormalized ==
    /\ \A i \in DOMAIN scene : scene[i].rotation \in 0..359
    /\ \A c \in DOMAIN canvas_images : canvas_images[c].rotation \in 0..359
    /\ \A k \in DOMAIN history :
          \A img \in Range(json_loads(history[k]).value.images) :
              img.rotation \in 0..359

\* A drag of the grabbed image to the candidate position p that the guide
\* detector gets to see
GuideMove(p) ==
    /\ mouseMove_move(p[1], p[2])
    /\ <<p[1], p[2]>> # <<grabbed_item.pos_x, grabbed_item.pos_y>>
    /\ smart_guides.enabled /\ ~snap_to_grid

\* Bounds of the grabbed item at the candidate position p
candidate_bounds(p) == moving_bounds_of(sceneBoundingRectAt(grabbed_item, p[1], p[2]))

vertical_guides(lines) == SelectSeq(lines, LAMBDA l : l.orientation = "vertical")
horizontal_guides(lines) == SelectSeq(lines, LAMBDA l : l.orientation = "horizontal")

\* The candidate centre-x is within the threshold of the centre-x of ob
near_center_x(p, ob) ==
    Abs(candidate_bounds(p).center_x - ob.center_x) < snap_threshold * PX

\* Some test on x of the detector holds between the candidate and ob
some_x_test(p, ob) ==
    \/ near_center_x(p, ob)
    \/ Abs(candidate_bounds(p).left - ob.left) < snap_threshold * PX
    \/ Abs(candidate_bounds(p).right - ob.right) < snap_threshold * PX
    \/ Abs(candidate_bounds(p).center_x - ob.left) < snap_threshold * PX
    \/ Abs(candidate_bounds(p).center_x - ob.right) < snap_threshold * PX

\* The pass has fixed x before it reaches the k-th item of the scan: at the
\* canvas centre, or on an item scanned earlier
x_fixed_before(p, k) ==
    \/ Abs(candidate_bounds(p).center_x - (scene_width \div 2)) < snap_threshold * PX
    \/ \E e \in 1..(k - 1) :
          /\ scene_items(scene)[e].uuid # mouse_grabber
          /\ some_x_test(p, get_item_bounds(scene_items(scene)[e]))

\* The grabbed item took x and the pass drew one vertical guide, at x
snapped_on_x(x) ==
    /\ grabbed_item'.pos_x = x
    /\ vertical_guides(smart_guides'.guide_lines) = <<vertical_guide(x)>>

C15_EqualSizeDragAligns ==
    [][\A p \in GuideTargets : GuideMove(p) =>
          \A j \in DOMAIN scene :
              (/\ scene[j].uuid # mouse_grabber
               /\ scene[j].pix_w = grabbed_item.pix_w
               /\ scene[j].pix_h = grabbed_item.pix_h
               /\ Abs(p[1] - scene[j].pos_x) <= 3 * PX)
              => /\ grabbed_item'.pos_x = scene[j].pos_x
                 /\ Len(vertical_guides(smart_guides'.guide_lines)) = 1]_vars

\* Bounds of the items other than the grabbed one
other_bounds == {get_item_bounds(scene[j]) : j \in {k \in DOMAIN scene :
                                                     scene[k].uuid # mouse_grabber}}

within_threshold(a, b) == Abs(a - b) < snap_threshold * PX

\* Coordinates at which a centre-to-centre alignment of the candidate p is
\* available, over the canvas frame and the other objects, per axis
center_targets_x(p) ==
    {c \in {scene_width \div 2} \cup {ob.center_x : ob \in other_bounds} :
        within_threshold(candidate_bounds(p).center_x, c)}
center_targets_y(p) ==
    {c \in {scene_height \div 2} \cup {ob.center_y : ob \in other_bounds} :
        within_threshold(candidate_bounds(p).center_y, c)}

\* Coordinates at which an edge-to-edge alignment is available, per axis
edge_targets_x(p) ==
    {ob.left : ob \in {o \in other_bounds : within_threshold(candidate_bounds(p).left, o.left)}}
    \cup {ob.right : ob \in {o \in other_bounds :
                                within_threshold(candidate_bounds(p).right, o.right)}}
edge_targets_y(p) ==
    {ob.top : ob \in {o \in other_bounds : within_threshold(candidate_bounds(p).top, o.top)}}
    \cup {ob.bottom : ob \in {o \in other_bounds :
                                 within_threshold(candidate_bounds(p).bottom, o.bottom)}}

\* The guides of one orientation are a single guide, at a coordinate of cs
one_guide_in(lines, cs) == Len(lines) = 1 /\ lines[1].coord \in cs

\* C16: on each axis the detector prefers centre-to-centre, then
\* edge-to-edge, then centre-to-edge, over the canvas frame and all other
\* objects, whatever the order of the scan: when some target offers a
\* centre-to-centre alignment the axis is snapped to a centre-to-centre
\* alignment (its guide lies on the centre of such a target), and when none
\* does but some target offers an edge-to-edge alignment the axis is
\* snapped to an edge-to-edge alignment.
C16_PriorityOverAllTargets ==
    [][\A p \in GuideTargets : GuideMove(p) =>
          /\ center_targets_x(p) # {}
                => one_guide_in(vertical_guides(smart_guides'.guide_lines),
                                center_targets_x(p))
          /\ center_targets_y(p) # {}
                => one_guide_in(horizontal_guides(smart_guides'.guide_lines),
                                center_targets_y(p))
          /\ (center_targets_x(p) = {} /\ edge_targets_x(p) # {})
                => one_guide_in(vertical_guides(smart_guides'.guide_lines),
                                edge_targets_x(p))
          /\ (center_targets_y(p) = {} /\ edge_targets_y(p) # {})
                => one_guide_in(horizontal_guides(smart_guides'.guide_lines),
                                edge_targets_y(p))]_vars

\* The nearest grid line to v (Python round of v / grid_size_px)
grid_rounded(v) ==
    py_round_div(v, cm_to_pixels(grid_size_cm * CM, canvas_dpi))
        * cm_to_pixels(grid_size_cm * CM, canvas_dpi)

\* C17: with the grid snap and the smart guides both enabled, every move of
\* a movable object, image or text, commits the candidate position rounded
\* to the nearest grid cell on both axes; the guide detector adjusts nothing.
C17_GridBeatsGuides ==
    [][\A p \in MoveTargets :
          (/\ snap_to_grid /\ smart_guides.enabled
           /\ mouseMove_move(p[1], p[2]) \/ text_mouseMoveEvent(p[1], p[2])
           /\ <<p[1], p[2]>> # <<grabbed_item.pos_x, grabbed_item.pos_y>>)
          => /\ grabbed_item'.pos_x = grid_rounded(p[1])
             /\ grabbed_item'.pos_y = grid_rounded(p[2])]_vars

\* C18: no guide line outlives its move: after the release that ends the
\* move of an image or of a text object, and after the smart guides are
\* toggled off, no guide line is left.
C18_NoGuideOutlivesMove ==
    last_op.op \in {"mouseReleaseEvent", "text.mouseReleaseEvent", "toggle_smart_guides"}
        => smart_guides.guide_lines = <<>>

\* The item without the pointer grab of its handles, which is Qt's and not
\* an attribute of the object
attributes_of(it) == [it EXCEPT !.grabbing = "none"]

\* C19: an update or an end that arrives while no transform session is
\* active (no start before it, or the session already ended) is a no-op: no
\* attribute of any object changes, no error is raised and no history
\* snapshot is recorded.
C19_NoSessionNoOp ==
    [][(/\ last_op'.op \in {"Handle.mouseMoveEvent", "Handle.mouseReleaseEvent"}
        /\ ~last_op'.arg.session
        /\ last_op' # last_op \/ scene' # scene)
       => /\ [k \in DOMAIN scene' |-> attributes_of(scene'[k])]
                = [k \in DOMAIN scene |-> attributes_of(scene[k])]
          /\ history' = history /\ history_index' = history_index
          /\ last_op'.captures = 0
          /\ ui'.errors = 0
          /\ canvas_images' = canvas_images]_vars

\* An update arrived with no session active, on an item that an earlier
\* session had resized or rotated
C19_UpdateAfterSessionEnded ==
    /\ last_op.op = "Handle.mouseMoveEvent"
    /\ ~last_op.arg.session
    /\ \E k \in DOMAIN scene :
          /\ scene[k].uuid = mouse_grabber
          /\ scene[k].active_handle = "none"
          /\ scene[k].transform_data # [ImageItem(scene[k].uuid, "b.png", 200, 100).transform_data
                                           EXCEPT !.x = scene[k].transform_data.x,
                                                  !.y = scene[k].transform_data.y]

\* Position, size and rotation of the grabbed item, on the scene and in its
\* data object
geometry_of(sc, images) ==
    [pos_x |-> sc[index_of(sc, mouse_grabber)].pos_x,
     pos_y |-> sc[index_of(sc, mouse_grabber)].pos_y,
     pix_w |-> sc[index_of(sc, mouse_grabber)].pix_w,
     pix_h |-> sc[index_of(sc, mouse_grabber)].pix_h,
     rotation |-> sc[index_of(sc, mouse_grabber)].rotation,
     x |-> images[index_of(images, mouse_grabber)].x,
     y |-> images[index_of(images, mouse_grabber)].y,
     width |-> images[index_of(images, mouse_grabber)].width,
     height |-> images[index_of(images, mouse_grabber)].height,
     data_rotation |-> images[index_of(images, mouse_grabber)].rotation]

\* C20: once the object of an active rotate, resize or move session has
\* become locked, every later update and the end of the session are no-ops:
\* its position, size and rotation stay as they were and no snapshot is
\* recorded.  (An object removed in mid-session is no longer in the scene.)
C20_LockedMidSessionNoOp ==
    [][(/\ has_uuid(scene, mouse_grabber)
        /\ canvas_images[index_of(canvas_images, mouse_grabber)].locked
        /\ last_op'.op \in {"mouseMoveEvent", "mouseReleaseEvent"})
       => /\ geometry_of(scene', canvas_images') = geometry_of(scene, canvas_images)
          /\ history' = history /\ history_index' = history_index]_vars

\* Position, size and rotation of the image uuid, on the scene and in its
\* data object
image_geometry(sc, images, uuid) ==
    [pos_x |-> sc[index_of(sc, uuid)].pos_x,
     pos_y |-> sc[index_of(sc, uuid)].pos_y,
     pix_w |-> sc[index_of(sc, uuid)].pix_w,
     pix_h |-> sc[index_of(sc, uuid)].pix_h,
     rotation |-> sc[index_of(sc, uuid)].rotation,
     x |-> images[index_of(images, uuid)].x,
     y |-> images[index_of(images, uuid)].y,
     width |-> images[index_of(images, uuid)].width,
     height |-> images[index_of(images, uuid)].height,
     data_rotation |-> images[index_of(images, uuid)].rotation]

\* The operations of the user on the objects: pointer events, edits in the
\* properties panel and rotate commands
UserOperations ==
    {"mousePressEvent", "mouseMoveEvent", "mouseReleaseEvent",
     "update_selected_position", "update_selected_rotation", "rotate_selected"}

\* C21: while an object is locked no user operation (pointer drag on the
\* body or on a handle, position or rotation edit in the properties panel,
\* rotate command) changes its position, size or rotation, and no session
\* starts on it.
C21_LockedStaysPut ==
    [][\A c \in DOMAIN canvas_images :
          (/\ canvas_images[c].locked
           /\ last_op'.op \in UserOperations
           /\ has_uuid(canvas_images', canvas_images[c].uuid)
           /\ has_uuid(scene, canvas_images[c].uuid)
           /\ has_uuid(scene', canvas_images[c].uuid))
          => /\ image_geometry(scene', canvas_images', canvas_images[c].uuid)
                  = image_geometry(scene, canvas_images, canvas_images[c].uuid)
             /\ ~scene'[index_of(scene', canvas_images[c].uuid)].is_rotating
             /\ ~scene'[index_of(scene', canvas_images[c].uuid)].is_resizing]_vars

\* No session flag of the image it is set
no_session_flag(it) == ~it.is_rotating /\ ~it.is_resizing

\* The session data of the image it is as DraggableImageItem.__init__ left it
no_session_data(it) ==
    /\ it.resize_handle = "none"
    /\ it.resize_start_w = 0 /\ it.resize_start_h = 0
    /\ ~it.resize_from_center /\ ~it.maintain_aspect_ratio
    /\ it.rotation_start_angle = 0

C23_SnapshotsAreValueCopies ==
    [][/\ last_op'.captures = 0 => history' = history
       /\ history' # history
             => \A k \in 1..(history_index + 1) :
                   k > (IF last_op'.dropped THEN 1 ELSE 0)
                   => /\ k - (IF last_op'.dropped THEN 1 ELSE 0) \in DOMAIN history'
                      /\ history'[k - (IF last_op'.dropped THEN 1 ELSE 0)] = history[k]]_vars

\* A drag has moved the live image away from every snapshot of the history
C23_LiveMovedPastSnapshots ==
    /\ last_op.op = "mouseMoveEvent" /\ last_op.arg = "move"
    /\ Len(history) = HistoryCap
    /\ live_snapshot \notin Range(history)

\* The image entries of the snapshot that seq holds at the 0-based index
snapshot_images(seq, index) == json_loads(seq[index + 1]).value.images

unplaced(it) == [it EXCEPT !.pos_x = 0, !.pos_y = 0]

\* C25: the guide detector only reads the scene: a detection pass changes
\* no attribute of any object other than the moving one, and of the moving
\* one nothing but the position it returns (size, rotation, z-order and
\* visibility stay); its other product is the guide lines.
C25_DetectorReadsOnly ==
    [][\A p \in GuideTargets : GuideMove(p) =>
          /\ DOMAIN scene' = DOMAIN scene
          /\ \A j \in DOMAIN scene :
                scene[j].uuid # mouse_grabber => scene'[j] = scene[j]
          /\ \A c \in DOMAIN canvas_images :
                canvas_images[c].uuid # mouse_grabber => canvas_images'[c] = canvas_images[c]
          /\ unplaced(grabbed_item') = unplaced(grabbed_item)
          /\ text_items' = text_items]_vars

\* A detection pass has just drawn a guide while two other objects were on
\* the canvas
C25_PassAmongOthers ==
    /\ last_op.op = "mouseMoveEvent" /\ last_op.arg = "move"
    /\ smart_guides.enabled /\ ~snap_to_grid
    /\ smart_guides.guide_lines # <<>>
    /\ Len(scene) = GuideImages
    /\ mouse_grabber = scene[Len(scene)].uuid

\* C26: during a resize from a start-side handle without anchor-at-centre
\* the edges opposite to the dragged handle stay where they were, for every
\* pointer delta, the clamped ones included: x + width is unchanged when
\* the left side is dragged and y + height when the top side is dragged.
C26_OppositeEdgesFixed ==
    [][(/\ last_op'.op = "mouseMoveEvent" /\ last_op'.arg = "resize"
        /\ has_uuid(scene, mouse_grabber)
        /\ grabbed_item.is_resizing
        /\ ~grabbed_item'.resize_from_center)
       => /\ grabbed_item.resize_handle \in {"tl", "bl", "l"}
                => grabbed_item'.pos_x + grabbed_item'.pix_w
                      = grabbed_item.pos_x + grabbed_item.pix_w
          /\ grabbed_item.resize_handle \in {"tl", "tr", "t"}
                => grabbed_item'.pos_y + grabbed_item'.pix_h
                      = grabbed_item.pos_y + grabbed_item.pix_h]_vars

\* C27: with anchor-at-centre set for the whole resize session, the centre
\* of the object (position + size / 2) after every update is its centre at
\* the start of the session, however many updates the session has: no
\* update moves the centre.
C27_CentreStaysFixed ==
    [][(/\ last_op'.op = "mouseMoveEvent" /\ last_op'.arg = "resize"
        /\ has_uuid(scene, mouse_grabber)
        /\ grabbed_item.is_resizing
        /\ grabbed_item.resize_from_center /\ grabbed_item'.resize_from_center)
       => /\ 2 * grabbed_item'.pos_x + grabbed_item'.pix_w
                = 2 * grabbed_item.pos_x + grabbed_item.pix_w
          /\ 2 * grabbed_item'.pos_y + grabbed_item'.pix_h
                = 2 * grabbed_item.pos_y + grabbed_item.pix_h]_vars

\* C28: snapping belongs to the pointer moves of a move session: a position
\* assigned by the program, here by an edit of the X / Y boxes of the
\* properties panel, is committed exactly as given, neither the guide
\* detector nor the grid alters it, and it creates no guide line.
C28_AssignedPositionExact ==
    [][\A p \in PanelPositions : update_selected_position(p[1], p[2]) =>
          /\ \A i \in selected_images(scene) :
                /\ scene'[i].pos_x = cm_to_pixels(p[1], canvas_dpi)
                /\ scene'[i].pos_y = cm_to_pixels(p[2], canvas_dpi)
          /\ Range(smart_guides'.guide_lines) \subseteq Range(smart_guides.guide_lines)]_vars

\* The items of a scene that are shown
visible_items(sc) == SelectSeq(sc, LAMBDA it : it.visible)

DetectorMove(p) ==
    /\ mouseMove_move(p[1], p[2]) \/ text_mouseMoveEvent(p[1], p[2])
    /\ <<p[1], p[2]>> # <<grabbed_item.pos_x, grabbed_item.pos_y>>
    /\ ~snap_to_grid

\* Some test on y of the detector holds between the candidate and ob
some_y_test(p, ob) ==
    \/ Abs(candidate_bounds(p).center_y - ob.center_y) < snap_threshold * PX
    \/ Abs(candidate_bounds(p).top - ob.top) < snap_threshold * PX
    \/ Abs(candidate_bounds(p).bottom - ob.bottom) < snap_threshold * PX
    \/ Abs(candidate_bounds(p).center_y - ob.top) < snap_threshold * PX
    \/ Abs(candidate_bounds(p).center_y - ob.bottom) < snap_threshold * PX

\* The pass for candidate p snaps x (y): one of its tests on that axis holds,
\* against the canvas centre or against another object
x_snapped(p) ==
    \/ Abs(candidate_bounds(p).center_x - (scene_width \div 2)) < snap_threshold * PX
    \/ \E j \in DOMAIN scene :
          scene[j].uuid # mouse_grabber /\ some_x_test(p, get_item_bounds(scene[j]))

y_snapped(p) ==
    \/ Abs(candidate_bounds(p).center_y - (scene_height \div 2)) < snap_threshold * PX
    \/ \E j \in DOMAIN scene :
          scene[j].uuid # mouse_grabber /\ some_y_test(p, get_item_bounds(scene[j]))

\* C30: the guide set never holds more than one vertical and one horizontal
\* guide; after a detection pass a guide exists for an axis if and only if
\* the pass snapped that axis, and an axis that was not snapped keeps the
\* input coordinate; with the detector disabled the output is the input
\* position and no guide is added.
C30_OneGuidePerSnappedAxis ==
    /\ [](/\ Len(vertical_guides(smart_guides.guide_lines)) <= 1
          /\ Len(horizontal_guides(smart_guides.guide_lines)) <= 1)
    /\ [][\A p \in GuideTargets : DetectorMove(p) =>
             IF smart_guides.enabled
             THEN /\ vertical_guides(smart_guides'.guide_lines) # <<>> <=> x_snapped(p)
                  /\ horizontal_guides(smart_guides'.guide_lines) # <<>> <=> y_snapped(p)
                  /\ ~x_snapped(p) => grabbed_item'.pos_x = p[1]
                  /\ ~y_snapped(p) => grabbed_item'.pos_y = p[2]
             ELSE /\ grabbed_item'.pos_x = p[1]
                  /\ grabbed_item'.pos_y = p[2]
                  /\ smart_guides'.guide_lines = smart_guides.guide_lines]_vars

\* A pass of a drag has snapped y only: one horizontal guide, no vertical one
C30_SnappedOnYOnly ==
    /\ mouse_grabber # NoUuid
    /\ last_op.op \in {"mouseMoveEvent", "text.mouseMoveEvent"} /\ last_op.arg = "move"
    /\ smart_guides.enabled /\ ~snap_to_grid
    /\ Len(horizontal_guides(smart_guides.guide_lines)) = 1
    /\ vertical_guides(smart_guides.guide_lines) = <<>>

====
